---- MODULE Spec2Model ----
(***************************************************************************)
(* Storage/tree engine of insomnia-mcp: four NDJSON files (Workspace,      *)
(* RequestGroup, Request, Environment) and the CRUD operations over them.  *)
(* Every operation reads the files it needs, computes in memory and then   *)
(* rewrites whole files one after the other; each file write is one step.  *)
(***************************************************************************)
EXTENDS Integers, Sequences, FiniteSets, TLC

VARIABLES
    wsFile,     \* insomnia.Workspace.db: sequence of records
    fldFile,    \* insomnia.RequestGroup.db
    reqFile,    \* insomnia.Request.db
    envFile,    \* insomnia.Environment.db
    now,        \* the clock read by nowMillis()
    nextId,     \* per prefix, how many ids createId() has handed out
    cur,        \* the operation in flight, or the one that just completed
    pending,    \* the file writes the operation in flight still has to do
    failures,   \* how many file writes have failed so far
    procs,      \* two callers whose operations overlap: each one's operation
                \* in flight and the file writes it still has to do
    lastWriter, \* per file, which of the two callers wrote it last (0: neither)
    text,       \* the content of a scratch NDJSON file, as its lines
    notified,   \* the notifications the tools have sent to the client, in order
    walk,       \* the loop of folderTree.ts that is running: its locals
    plugin      \* the Insomnia plugin: its globals, timers and pending callbacks

vars == <<wsFile, fldFile, reqFile, envFile, now, nextId, cur, pending, failures,
          procs, lastWriter, text, notified, walk, plugin>>

\* what the one-call-at-a-time operations leave alone
aside == <<procs, lastWriter, text, notified, walk, plugin>>

----------------------------------------------------------------------------
(* Bounds of the model.                                                    *)

MaxCollections == 2
MaxFolders == 3
MaxRequests == 1
MaxEnvironments == 3
MaxClock == 2
MaxWriteFailures == 1
FieldsCollections == 1
FieldsFolders == 1
FieldsRequests == 2
ClockFolders == 1
ClockRequests == 1
RaceCollections == 2
RaceFolders == 2
MaxBadLines == 1
CorruptCollections == 1
CorruptFolders == 1
CorruptRequests == 1
MaxForeign == 1
SharedCollections == 1
SharedFolders == 2
SharedRequests == 1
BootWorkspaces == 3
MaxLen == 3
EnvCollections == 2
ToolCollections == 1
ToolFolders == 1
ToolRequests == 1
ParentCollections == 2
ParentFolders == 2
ParentRequests == 1
ScopeWorkspaces == 3
ScopeFolders == 2
ScopeRequests == 2
EveryWorkspaces == 2
EveryFolders == 1
EveryRequests == 1
TornLen == 2
NotifyCollections == 1
NotifyFolders == 1
NotifyRequests == 1
MaxNotified == 4
TreeFolders == 3
TreeWorkspaces == 2
WalkFolders == 3
DupCollections == 1
DupFolders == 1
DupRequests == 1
DupCopies == 1
ListWorkspaces == 3
ForwardCollections == 1
ForwardFolders == 2
ForwardRequests == 1
OrphanFolders == 1
OrphanRequests == 1
MaxTimers == 3
MaxCallbacks == 2
MaxHash == 2

----------------------------------------------------------------------------
(* JavaScript values that are not strings of the domain.                   *)

Undefined == "<undefined>"
Null == "<null>"

\* `input.x ?? undefined`
NullishToUndefined(v) == IF v = Null THEN Undefined ELSE v

\* truthiness of a string-or-nullish value: `if (!parentId)`, `while (parentId)`
Truthy(v) == v \notin {Undefined, Null, ""}

\* String.prototype.trim on the strings of the model
trim(s) == IF s \in {" ", "  "} THEN ""
           ELSE IF s = " s1 " THEN "s1"
           ELSE s

\* the method stored as given
methodAsGiven(s) == s

\* String.prototype.toUpperCase on the method names of the model
toUpperCase(s) ==
    CASE s = "get" -> "GET"
      [] s = "post" -> "POST"
      [] s = "Put" -> "PUT"
      [] OTHER -> s

----------------------------------------------------------------------------
(* db.ts: identity, time, typed reads.                                     *)

DEFAULT_ENVIRONMENT_NAME == "Base Environment"
COLLECTION_SCOPE == "collection"
PROJECT_ID == "proj_scratchpad"

\* createId(prefix): `${prefix}_${uuid}`; the n-th id drawn for a prefix
createId(prefix, n) == prefix \o "_" \o ToString(n)

\* toIso(millis): ISO-8601 text of an epoch-millisecond stamp (stamps < 10 s)
toIso(millis) ==
    LET ms == millis % 1000
        pad == IF ms < 10 THEN "00" ELSE IF ms < 100 THEN "0" ELSE ""
    IN "1970-01-01T00:00:0" \o ToString(millis \div 1000) \o "." \o pad
         \o ToString(ms) \o "Z"

\* a non-empty line of a data file that is not JSON, as the file holds it
BadLine == [type |-> "<not JSON>"]

\* readNdjsonRecords throws: JSON.parse fails on a line of the file
parseFails(file) == \E i \in 1..Len(file) : file[i].type = BadLine.type

FilterType(file, t) == SelectSeq(file, LAMBDA r : r.type = t)

readWorkspaceRecords(file) == FilterType(file, "Workspace")
readRequestGroupRecords(file) == FilterType(file, "RequestGroup")
readRequestRecords(file) == FilterType(file, "Request")
readEnvironmentRecords(file) == FilterType(file, "Environment")

buildEnvironmentRecord(workspaceId, timestamp, n) ==
    [_id |-> createId("env", n), type |-> "Environment", parentId |-> workspaceId,
     modified |-> timestamp, created |-> timestamp,
     name |-> DEFAULT_ENVIRONMENT_NAME, data |-> <<>>, metaSortKey |-> timestamp]

\* resolveProjectId with no override and no project record
resolveProjectId == PROJECT_ID

----------------------------------------------------------------------------
(* Array helpers.                                                          *)

\* Array.prototype.findIndex: the first index whose element satisfies P, or 0
FindIndex(s, P(_)) ==
    IF \E i \in 1..Len(s) : P(s[i])
    THEN CHOOSE i \in 1..Len(s) : P(s[i]) /\ \A j \in 1..(i - 1) : ~P(s[j])
    ELSE 0

\* Array.prototype.splice(index, 1)
RemoveAt(s, i) == SubSeq(s, 1, i - 1) \o SubSeq(s, i + 1, Len(s))

Ids(s) == {s[i]._id : i \in 1..Len(s)}

----------------------------------------------------------------------------
(* folderTree.ts: pure functions over a snapshot of RequestGroup records.  *)

\* new Map filled in array order: the key order is the order of first
\* appearance, the value of a key is the last record carrying it
buildFolderLookup(folders) ==
    LET firsts == SelectSeq([i \in 1..Len(folders) |-> i],
                     LAMBDA i : \A j \in 1..(i - 1) : folders[j]._id # folders[i]._id)
        last(id) == CHOOSE i \in 1..Len(folders) :
                       /\ folders[i]._id = id
                       /\ \A j \in (i + 1)..Len(folders) : folders[j]._id # id
    IN [keys |-> [k \in 1..Len(firsts) |-> folders[firsts[k]]._id],
        get |-> [id \in Ids(folders) |-> folders[last(id)]]]

LookupHas(lookup, id) == id \in DOMAIN lookup.get

\* a walk that looks at the folder's own parent and no further
BelongsDirect(parentId, visited, workspaceId, lookup) == parentId = workspaceId

RECURSIVE BelongsWalk(_, _, _, _)
BelongsWalk(parentId, visited, workspaceId, lookup) ==
    IF ~Truthy(parentId) THEN FALSE
    ELSE IF parentId = workspaceId THEN TRUE
    ELSE IF parentId \in visited THEN FALSE
    ELSE IF ~LookupHas(lookup, parentId) THEN FALSE
    ELSE BelongsWalk(lookup.get[parentId].parentId, visited \cup {parentId},
                     workspaceId, lookup)

\* membership taken for granted once the folder exists
folderBelongsAnywhere(folder, workspaceId, lookup) == TRUE

folderBelongsToWorkspace(folder, workspaceId, lookup) ==
    BelongsWalk(folder.parentId, {}, workspaceId, lookup)

\* every folder of the file, whoever owns it
collectFoldersOfFile(workspaceId, folders, lookup) == folders

collectFoldersForWorkspace(workspaceId, folders, lookup) ==
    SelectSeq(folders, LAMBDA f : folderBelongsToWorkspace(f, workspaceId, lookup))

requestBelongsToWorkspace(request, workspaceId, lookup) ==
    IF request.parentId = workspaceId THEN TRUE
    ELSE IF ~LookupHas(lookup, request.parentId) THEN FALSE
    ELSE folderBelongsToWorkspace(lookup.get[request.parentId], workspaceId, lookup)

collectRequestsForWorkspace(workspaceId, requests, lookup) ==
    SelectSeq(requests, LAMBDA r : requestBelongsToWorkspace(r, workspaceId, lookup))

\* returns [err, id]: the folder's id, or the error thrown
ensureFolderInWorkspace(folderId, workspaceId, lookup) ==
    IF ~LookupHas(lookup, folderId)
    THEN [err |-> "FolderNotFound", id |-> Undefined]
    ELSE IF ~folderBelongsToWorkspace(lookup.get[folderId], workspaceId, lookup)
    THEN [err |-> "FolderNotInCollection", id |-> Undefined]
    ELSE [err |-> "none", id |-> lookup.get[folderId]._id]

\* a resolution that takes the requested parent at its word
resolveFolderParentIdUnchecked(workspaceId, parentId, lookup) ==
    [err |-> "none",
     id |-> IF ~Truthy(parentId) \/ parentId = workspaceId THEN workspaceId ELSE parentId]

resolveFolderParentId(workspaceId, parentId, lookup) ==
    IF ~Truthy(parentId) \/ parentId = workspaceId
    THEN [err |-> "none", id |-> workspaceId]
    ELSE ensureFolderInWorkspace(parentId, workspaceId, lookup)

resolveRequestParentId(workspaceId, folderId, lookup) ==
    resolveFolderParentId(workspaceId, NullishToUndefined(folderId), lookup)

\* a guard that looks at the proposed parent only, not at its ancestors
CycleWalkParentOnly(currentId, visited, folderId, lookup) == currentId = folderId

RECURSIVE CycleWalk(_, _, _, _)
CycleWalk(currentId, visited, folderId, lookup) ==
    IF ~Truthy(currentId) THEN FALSE
    ELSE IF currentId = folderId THEN TRUE
    ELSE IF currentId \in visited THEN FALSE
    ELSE IF ~LookupHas(lookup, currentId) THEN FALSE
    ELSE CycleWalk(lookup.get[currentId].parentId, visited \cup {currentId},
                   folderId, lookup)

\* the cycle guard left out of updateFolder
folderCycleUnguarded(folderId, parentId, lookup) == FALSE

\* TRUE when ensureNoFolderCycle throws
folderCycle(folderId, parentId, lookup) == CycleWalk(parentId, {}, folderId, lookup)

\* an enumeration that stops at the children of the folder
DescendOnce(stack, descendants, lookup) ==
    {stack[1]} \cup {k \in DOMAIN lookup.get : lookup.get[k].parentId = stack[1]}

RECURSIVE DescendWalk(_, _, _)
DescendWalk(stack, descendants, lookup) ==
    IF Len(stack) = 0 THEN descendants
    ELSE LET current == stack[Len(stack)]
             rest == SubSeq(stack, 1, Len(stack) - 1)
             children == SelectSeq(lookup.keys,
                            LAMBDA k : lookup.get[k].parentId = current)
         IN IF current \in descendants
            THEN DescendWalk(rest, descendants, lookup)
            ELSE DescendWalk(rest \o children, descendants \cup {current}, lookup)

\* the folder and its direct children only
collectChildFolderIds(folderId, lookup) ==
    {folderId} \cup {k \in DOMAIN lookup.get : lookup.get[k].parentId = folderId}

collectDescendantFolderIds(folderId, lookup) == DescendWalk(<<folderId>>, {}, lookup)

----------------------------------------------------------------------------
(* converters.ts: on-disk record -> externally visible shape.              *)

\* header lists and bodies are carried as their JSON text
toStoredRequest(record, collectionId) ==
    [id |-> record._id, collectionId |-> collectionId, name |-> record.name,
     method |-> record.method, url |-> record.url,
     headers |-> IF record.headers = Undefined THEN "[]" ELSE record.headers,
     body |-> IF record.body = Undefined THEN Null ELSE record.body,
     description |-> record.description,
     folderId |-> IF record.parentId # collectionId THEN record.parentId ELSE Undefined,
     preRequestScript |-> IF record.preRequestScript = Null THEN Undefined
                          ELSE record.preRequestScript,
     afterResponseScript |-> IF record.afterResponseScript = Null THEN Undefined
                             ELSE record.afterResponseScript,
     createdAt |-> toIso(record.created), updatedAt |-> toIso(record.modified)]

\* every Environment record of the model carries a data object, so the
\* `?? {}` default of the converter is never taken
toStoredEnvironment(record) ==
    [id |-> record._id, name |-> record.name,
     variables |-> record.data,
     createdAt |-> toIso(record.created), updatedAt |-> toIso(record.modified)]

toStoredFolder(record) ==
    [id |-> record._id, name |-> record.name,
     description |-> IF record.description \in {Undefined, Null, ""} THEN Undefined
                     ELSE record.description,
     parentId |-> record.parentId,
     createdAt |-> toIso(record.created), updatedAt |-> toIso(record.modified)]

toStoredCollection(workspace, environment, requests, folders) ==
    [id |-> workspace._id, name |-> workspace.name,
     description |-> IF workspace.description \in {Undefined, Null, ""} THEN Undefined
                     ELSE workspace.description,
     environment |-> toStoredEnvironment(environment),
     folders |-> [i \in 1..Len(folders) |-> toStoredFolder(folders[i])],
     requests |-> [i \in 1..Len(requests) |-> toStoredRequest(requests[i], workspace._id)],
     createdAt |-> toIso(workspace.created), updatedAt |-> toIso(workspace.modified)]

----------------------------------------------------------------------------
(* The shape of an operation's run: what it throws before its first write, *)
(* or the file writes it goes on to do and the value it then returns.      *)

Files == [ws |-> wsFile, fld |-> fldFile, req |-> reqFile, env |-> envFile]

Idle == [op |-> "none", in |-> <<>>, pc |-> "idle", err |-> "none",
         result |-> <<>>, pre |-> <<>>, at |-> 0, ts |-> 0]

\* the plugin module as evaluated: `let pollTimer = null; let lastKnownHash =
\* null; let isPolling = false`, no timer set, no callback pending. A timer
\* is [id, kind]: kind "import" is the interval of startPolling, "monitor"
\* the interval set when the plugin loads
NoPlugin == [isPolling |-> FALSE, pollTimer |-> Null, lastKnownHash |-> Null,
             timers |-> {}, created |-> 0, loaded |-> FALSE,
             checks |-> [load |-> 0, hook |-> 0, toggle |-> 0],
             polls |-> [import |-> 0, monitor |-> 0],
             changed |-> [import |-> 0, monitor |-> 0],
             importing |-> 0, owed |-> FALSE, hash |-> createId("hash", 1)]

\* no loop of folderTree.ts is running
NoWalk == [fn |-> "none", args |-> <<>>, pc |-> "none", id |-> Undefined,
           target |-> Undefined, visited |-> {}, stack |-> <<>>, result |-> <<>>]

\* one await of write*Records(recs). mode "readPush" is createCollection's
\* read-push-write of the environment file; late names the workspace whose
\* modified is stamped with a nowMillis() taken once the write before is done
Write(file, recs) == [file |-> file, mode |-> "replace", recs |-> recs, late |-> Undefined]
WriteLate(file, recs, workspaceId) ==
    [file |-> file, mode |-> "replace", recs |-> recs, late |-> workspaceId]
ReadPushWrite(file, recs) ==
    [file |-> file, mode |-> "readPush", recs |-> recs, late |-> Undefined]

\* a returned value, and `undefined` / void
Some(v) == <<v>>
None == <<>>

Throw(e) == [err |-> e, writes |-> <<>>, result |-> None, ts |-> now, ids |-> nextId]
Proceed(writes, result, ts, ids) ==
    [err |-> "none", writes |-> writes, result |-> result, ts |-> ts, ids |-> ids]

\* the stamped workspace written back alone
StampAlone(all, workspaceId, timestamp) ==
    SelectSeq([i \in 1..Len(all) |-> [all[i] EXCEPT !.modified = timestamp]],
              LAMBDA r : r._id = workspaceId)

\* the workspace list written back as it was read
StampForgotten(all, workspaceId, timestamp) == all

\* `workspace.modified = timestamp` on the record loadWorkspace found in `all`
Stamp(all, workspaceId, timestamp) ==
    LET i == FindIndex(all, LAMBDA r : r._id = workspaceId)
    IN IF i = 0 THEN all ELSE [all EXCEPT ![i].modified = timestamp]

\* collections.ts loadWorkspace: [err, workspace, all]
loadWorkspace(workspaceId) ==
    LET workspaces == readWorkspaceRecords(wsFile)
        i == FindIndex(workspaces, LAMBDA r : r._id = workspaceId)
    IN IF parseFails(wsFile)
       THEN [err |-> "Parse", workspace |-> <<>>, all |-> <<>>]
       ELSE IF i = 0
       THEN [err |-> "CollectionNotFound", workspace |-> <<>>, all |-> workspaces]
       ELSE [err |-> "none", workspace |-> workspaces[i], all |-> workspaces]

\* an environment built and pushed whether or not one is there already
ensureEnvironmentAlwaysNew(workspaceId, environments, n) ==
    LET environment == buildEnvironmentRecord(workspaceId, now, n + 1)
    IN [environment |-> environment,
        environments |-> Append(environments, environment), updated |-> TRUE]

\* ensureEnvironmentForWorkspace: [environment, environments, updated]
ensureEnvironmentForWorkspace(workspaceId, environments, n) ==
    LET i == FindIndex(environments, LAMBDA r : r.parentId = workspaceId)
    IN IF i # 0
       THEN [environment |-> environments[i], environments |-> environments,
             updated |-> FALSE]
       ELSE LET environment == buildEnvironmentRecord(workspaceId, now, n + 1)
            IN [environment |-> environment,
                environments |-> Append(environments, environment), updated |-> TRUE]

----------------------------------------------------------------------------
(* collections.ts                                                          *)

createCollection(in) ==
    LET timestamp == now
        workspace == [_id |-> createId("wrk", nextId.wrk + 1), type |-> "Workspace",
                      parentId |-> resolveProjectId, modified |-> timestamp,
                      created |-> timestamp, name |-> in.name,
                      description |-> in.description, scope |-> COLLECTION_SCOPE]
        workspaces == Append(readWorkspaceRecords(wsFile), workspace)
        environmentRecord == buildEnvironmentRecord(workspace._id, timestamp, nextId.env + 1)
    IN IF parseFails(wsFile) THEN Throw("Parse")
       ELSE Proceed(<<Write("ws", workspaces),
                      ReadPushWrite("env", <<environmentRecord>>)>>,
                    Some(toStoredCollection(workspace, environmentRecord, <<>>, <<>>)),
                    timestamp,
                    [nextId EXCEPT !.wrk = @ + 1, !.env = @ + 1])

\* a lookup by id alone, whatever the scope of the workspace
getCollectionAnyScope(in) ==
    LET workspaces == readWorkspaceRecords(wsFile)
        i == FindIndex(workspaces,
                 LAMBDA r : r._id = in.collectionId)
    IN IF parseFails(wsFile) THEN Throw("Parse")
       ELSE IF i = 0 THEN Proceed(<<>>, None, now, nextId)
       ELSE IF parseFails(reqFile) \/ parseFails(fldFile) \/ parseFails(envFile)
       THEN Throw("Parse")
       ELSE LET workspace == workspaces[i]
                requests == readRequestRecords(reqFile)
                requestGroups == readRequestGroupRecords(fldFile)
                lookup == buildFolderLookup(requestGroups)
                e == ensureEnvironmentForWorkspace(workspace._id,
                         readEnvironmentRecords(envFile), nextId.env)
            IN Proceed(IF e.updated THEN <<Write("env", e.environments)>> ELSE <<>>,
                       Some(toStoredCollection(workspace, e.environment,
                           collectRequestsForWorkspace(workspace._id, requests, lookup),
                           collectFoldersForWorkspace(workspace._id, requestGroups, lookup))),
                       now,
                       IF e.updated THEN [nextId EXCEPT !.env = @ + 1] ELSE nextId)

getCollection(in) ==
    LET workspaces == readWorkspaceRecords(wsFile)
        i == FindIndex(workspaces,
                 LAMBDA r : r._id = in.collectionId /\ r.scope = COLLECTION_SCOPE)
    IN IF parseFails(wsFile) THEN Throw("Parse")
       ELSE IF i = 0 THEN Proceed(<<>>, None, now, nextId)
       ELSE IF parseFails(reqFile) \/ parseFails(fldFile) \/ parseFails(envFile)
       THEN Throw("Parse")
       ELSE LET workspace == workspaces[i]
                requests == readRequestRecords(reqFile)
                requestGroups == readRequestGroupRecords(fldFile)
                lookup == buildFolderLookup(requestGroups)
                e == ensureEnvironmentForWorkspace(workspace._id,
                         readEnvironmentRecords(envFile), nextId.env)
            IN Proceed(IF e.updated THEN <<Write("env", e.environments)>> ELSE <<>>,
                       Some(toStoredCollection(workspace, e.environment,
                           collectRequestsForWorkspace(workspace._id, requests, lookup),
                           collectFoldersForWorkspace(workspace._id, requestGroups, lookup))),
                       now,
                       IF e.updated THEN [nextId EXCEPT !.env = @ + 1] ELSE nextId)

\* the loop of listCollections over workspaces[i..]: environments as extended
\* so far, the collections assembled so far, the environment ids drawn so far
RECURSIVE ListLoop(_, _, _, _, _, _, _, _)
ListLoop(workspaces, i, environments, n, updated, collections, requests, requestGroups) ==
    IF i > Len(workspaces)
    THEN [environments |-> environments, n |-> n, updated |-> updated,
          collections |-> collections]
    ELSE IF workspaces[i].scope # COLLECTION_SCOPE
    THEN ListLoop(workspaces, i + 1, environments, n, updated, collections,
                  requests, requestGroups)
    ELSE LET workspace == workspaces[i]
             lookup == buildFolderLookup(requestGroups)
             e == ensureEnvironmentForWorkspace(workspace._id, environments, n)
             collection ==
                 toStoredCollection(workspace, e.environment,
                     collectRequestsForWorkspace(workspace._id, requests, lookup),
                     collectFoldersForWorkspace(workspace._id, requestGroups, lookup))
         IN ListLoop(workspaces, i + 1, e.environments,
                     IF e.updated THEN n + 1 ELSE n, updated \/ e.updated,
                     Append(collections, collection), requests, requestGroups)

\* a listing that rewrites the environment file after each collection whose
\* environment it created
listCollectionsWritingEach ==
    LET workspaces == readWorkspaceRecords(wsFile)
        environments == readEnvironmentRecords(envFile)
    IN IF parseFails(wsFile) THEN Throw("Parse")
       ELSE IF Len(workspaces) = 0 THEN Proceed(<<>>, Some(<<>>), now, nextId)
       ELSE IF parseFails(reqFile) \/ parseFails(fldFile) \/ parseFails(envFile)
       THEN Throw("Parse")
       ELSE LET l == ListLoop(workspaces, 1, environments,
                              nextId.env, FALSE, <<>>, readRequestRecords(reqFile),
                              readRequestGroupRecords(fldFile))
            IN Proceed([k \in 1..(Len(l.environments) - Len(environments)) |->
                           Write("env", SubSeq(l.environments, 1, Len(environments) + k))],
                       Some(l.collections), now, [nextId EXCEPT !.env = l.n])

listCollections ==
    LET workspaces == readWorkspaceRecords(wsFile)
    IN IF parseFails(wsFile) THEN Throw("Parse")
       ELSE IF Len(workspaces) = 0 THEN Proceed(<<>>, Some(<<>>), now, nextId)
       ELSE IF parseFails(reqFile) \/ parseFails(fldFile) \/ parseFails(envFile)
       THEN Throw("Parse")
       ELSE LET l == ListLoop(workspaces, 1, readEnvironmentRecords(envFile),
                              nextId.env, FALSE, <<>>, readRequestRecords(reqFile),
                              readRequestGroupRecords(fldFile))
            IN Proceed(IF l.updated THEN <<Write("env", l.environments)>> ELSE <<>>,
                       Some(l.collections), now, [nextId EXCEPT !.env = l.n])

ensureSampleData ==
    LET workspaces == readWorkspaceRecords(wsFile)
    IN IF parseFails(wsFile) THEN Throw("Parse")
       ELSE IF Len(workspaces) = 0 THEN Proceed(<<>>, None, now, nextId)
       ELSE IF parseFails(envFile) THEN Throw("Parse")
       ELSE LET l == ListLoop(workspaces, 1, readEnvironmentRecords(envFile),
                              nextId.env, FALSE, <<>>, <<>>, <<>>)
            IN Proceed(IF l.updated THEN <<Write("env", l.environments)>> ELSE <<>>,
                       None, now, [nextId EXCEPT !.env = l.n])

----------------------------------------------------------------------------
(* folders.ts                                                              *)

buildFolderRecord(parentId, in, timestamp, n) ==
    [_id |-> createId("fld", n), type |-> "RequestGroup", parentId |-> parentId,
     modified |-> timestamp, created |-> timestamp, name |-> in.name,
     description |-> in.description, metaSortKey |-> -timestamp]

createFolder(in) ==
    LET lw == loadWorkspace(in.collectionId)
        timestamp == now
        folders == readRequestGroupRecords(fldFile)
        lookup == buildFolderLookup(folders)
        parent == resolveFolderParentId(lw.workspace._id,
                      NullishToUndefined(in.parentId), lookup)
        folderRecord == buildFolderRecord(parent.id, in, timestamp, nextId.fld + 1)
    IN IF lw.err # "none" THEN Throw(lw.err)
       ELSE IF parseFails(fldFile) THEN Throw("Parse")
       ELSE IF parent.err # "none" THEN Throw(parent.err)
       ELSE Proceed(<<Write("fld", Append(folders, folderRecord)),
                      Write("ws", Stamp(lw.all, lw.workspace._id, timestamp))>>,
                    Some(toStoredFolder(folderRecord)), timestamp,
                    [nextId EXCEPT !.fld = @ + 1])

updateFolder(in) ==
    LET lw == loadWorkspace(in.collectionId)
        folders == readRequestGroupRecords(fldFile)
        lookup == buildFolderLookup(folders)
        i == FindIndex(folders, LAMBDA r : r._id = in.folderId)
        folder == folders[i]
        timestamp == now
        newParent == resolveFolderParentId(lw.workspace._id,
                         NullishToUndefined(in.parentId), lookup)
        moved == IF in.parentId # Undefined
                 THEN [folder EXCEPT !.parentId = newParent.id] ELSE folder
        named == IF in.name # Undefined THEN [moved EXCEPT !.name = in.name] ELSE moved
        described == IF in.description # Undefined
                     THEN [named EXCEPT !.description = NullishToUndefined(in.description)]
                     ELSE named
        updated == [described EXCEPT !.modified = timestamp, !.metaSortKey = -timestamp]
    IN IF lw.err # "none" THEN Throw(lw.err)
       ELSE IF parseFails(fldFile) THEN Throw("Parse")
       ELSE IF i = 0 \/ ~folderBelongsToWorkspace(folder, lw.workspace._id, lookup)
       THEN Throw("FolderNotFound")
       ELSE IF in.parentId # Undefined /\ newParent.err # "none" THEN Throw(newParent.err)
       ELSE IF /\ in.parentId # Undefined
               /\ newParent.id # lw.workspace._id
               /\ folderCycle(folder._id, newParent.id, lookup)
       THEN Throw("FolderCycle")
       ELSE Proceed(<<Write("fld", [folders EXCEPT ![i] = updated]),
                      Write("ws", Stamp(lw.all, lw.workspace._id, timestamp))>>,
                    Some(toStoredFolder(updated)), timestamp, nextId)

\* a cascade that drops only the requests directly in the deleted folder
deleteFolderDirectRequests(in) ==
    LET lw == loadWorkspace(in.collectionId)
        folders == readRequestGroupRecords(fldFile)
        lookup == buildFolderLookup(folders)
        folder == lookup.get[in.folderId]
        requests == readRequestRecords(reqFile)
        descendantIds == collectDescendantFolderIds(folder._id, lookup)
        remainingFolders == SelectSeq(folders, LAMBDA r : r._id \notin descendantIds)
        remainingRequests == SelectSeq(requests, LAMBDA r : r.parentId # folder._id)
    IN IF lw.err # "none" THEN Throw(lw.err)
       ELSE IF parseFails(fldFile) THEN Throw("Parse")
       ELSE IF \/ ~LookupHas(lookup, in.folderId)
               \/ ~folderBelongsToWorkspace(folder, lw.workspace._id, lookup)
       THEN Throw("FolderNotFound")
       ELSE IF parseFails(reqFile) THEN Throw("Parse")
       ELSE Proceed(<<Write("fld", remainingFolders), Write("req", remainingRequests),
                      WriteLate("ws", lw.all, lw.workspace._id)>>,
                    None, now, nextId)

deleteFolder(in) ==
    LET lw == loadWorkspace(in.collectionId)
        folders == readRequestGroupRecords(fldFile)
        lookup == buildFolderLookup(folders)
        folder == lookup.get[in.folderId]
        requests == readRequestRecords(reqFile)
        descendantIds == collectDescendantFolderIds(folder._id, lookup)
        remainingFolders == SelectSeq(folders, LAMBDA r : r._id \notin descendantIds)
        remainingRequests == SelectSeq(requests, LAMBDA r : r.parentId \notin descendantIds)
    IN IF lw.err # "none" THEN Throw(lw.err)
       ELSE IF parseFails(fldFile) THEN Throw("Parse")
       ELSE IF \/ ~LookupHas(lookup, in.folderId)
               \/ ~folderBelongsToWorkspace(folder, lw.workspace._id, lookup)
       THEN Throw("FolderNotFound")
       ELSE IF parseFails(reqFile) THEN Throw("Parse")
       ELSE Proceed(<<Write("fld", remainingFolders), Write("req", remainingRequests),
                      WriteLate("ws", lw.all, lw.workspace._id)>>,
                    None, now, nextId)

getFolder(in) ==
    LET lw == loadWorkspace(in.collectionId)
        folders == readRequestGroupRecords(fldFile)
        lookup == buildFolderLookup(folders)
        folder == lookup.get[in.folderId]
    IN IF lw.err # "none" THEN Throw(lw.err)
       ELSE IF parseFails(fldFile) THEN Throw("Parse")
       ELSE IF \/ ~LookupHas(lookup, in.folderId)
               \/ ~folderBelongsToWorkspace(folder, lw.workspace._id, lookup)
       THEN Throw("FolderNotFound")
       ELSE Proceed(<<>>, Some(toStoredFolder(folder)), now, nextId)

----------------------------------------------------------------------------
(* requests.ts                                                             *)

\* `input.script && input.script.trim().length > 0`
NonEmptyScript(script) == Truthy(script) /\ trim(script) # ""

buildRequestRecord(parentId, in, timestamp, n) ==
    [_id |-> createId("req", n), type |-> "Request", parentId |-> parentId,
     modified |-> timestamp, created |-> timestamp, url |-> in.url, name |-> in.name,
     description |-> in.description, method |-> toUpperCase(in.method),
     headers |-> IF in.headers \in {Undefined, Null} THEN "[]" ELSE in.headers,
     body |-> IF in.body \in {Undefined, Null} THEN Null ELSE in.body,
     metaSortKey |-> -timestamp,
     preRequestScript |-> IF NonEmptyScript(in.preRequestScript)
                          THEN in.preRequestScript ELSE Undefined,
     afterResponseScript |-> IF NonEmptyScript(in.afterResponseScript)
                             THEN in.afterResponseScript ELSE Undefined]

createRequest(in) ==
    LET lw == loadWorkspace(in.collectionId)
        timestamp == now
        requestGroups == readRequestGroupRecords(fldFile)
        lookup == buildFolderLookup(requestGroups)
        parent == resolveRequestParentId(lw.workspace._id,
                      NullishToUndefined(in.folderId), lookup)
        requestRecord == buildRequestRecord(parent.id, in, timestamp, nextId.req + 1)
        requests == readRequestRecords(reqFile)
    IN IF lw.err # "none" THEN Throw(lw.err)
       ELSE IF parseFails(fldFile) THEN Throw("Parse")
       ELSE IF parent.err # "none" THEN Throw(parent.err)
       ELSE IF parseFails(reqFile) THEN Throw("Parse")
       ELSE Proceed(<<Write("req", Append(requests, requestRecord)),
                      Write("ws", Stamp(lw.all, lw.workspace._id, timestamp))>>,
                    Some(toStoredRequest(requestRecord, lw.workspace._id)), timestamp,
                    [nextId EXCEPT !.req = @ + 1])

\* a script update that stores whatever it is given, null apart
updateScriptAsGiven(stored, input) ==
    IF input = Undefined THEN stored ELSE NullishToUndefined(input)

\* the script branch of updateRequest: the stored value after the update
updateScript(stored, input) ==
    IF input = Undefined THEN stored
    ELSE IF input = Null \/ trim(input) = "" THEN Undefined
    ELSE input

\* field assignments where the description is assigned without the
\* `!== undefined` test
applyRequestUpdateDescriptionAlways(request, in, newParentId, timestamp) ==
    [request EXCEPT
        !.parentId = IF in.folderId # Undefined THEN newParentId ELSE @,
        !.name = IF in.name # Undefined THEN in.name ELSE @,
        !.method = IF in.method # Undefined THEN toUpperCase(in.method) ELSE @,
        !.url = IF in.url # Undefined THEN in.url ELSE @,
        !.headers = IF in.headers # Undefined THEN in.headers ELSE @,
        !.body = IF in.body # Undefined THEN in.body ELSE @,
        !.description = NullishToUndefined(in.description),
        !.preRequestScript = updateScript(@, in.preRequestScript),
        !.afterResponseScript = updateScript(@, in.afterResponseScript),
        !.modified = timestamp]

\* the field assignments of updateRequest on the found record
applyRequestUpdate(request, in, newParentId, timestamp) ==
    [request EXCEPT
        !.parentId = IF in.folderId # Undefined THEN newParentId ELSE @,
        !.name = IF in.name # Undefined THEN in.name ELSE @,
        !.method = IF in.method # Undefined THEN toUpperCase(in.method) ELSE @,
        !.url = IF in.url # Undefined THEN in.url ELSE @,
        !.headers = IF in.headers # Undefined THEN in.headers ELSE @,
        !.body = IF in.body # Undefined THEN in.body ELSE @,
        !.description = IF in.description # Undefined
                        THEN NullishToUndefined(in.description) ELSE @,
        !.preRequestScript = updateScript(@, in.preRequestScript),
        !.afterResponseScript = updateScript(@, in.afterResponseScript),
        !.modified = timestamp]

updateRequest(in) ==
    LET lw == loadWorkspace(in.collectionId)
        requestGroups == readRequestGroupRecords(fldFile)
        lookup == buildFolderLookup(requestGroups)
        requests == readRequestRecords(reqFile)
        i == FindIndex(requests, LAMBDA r : r._id = in.requestId)
        request == requests[i]
        newParent == resolveRequestParentId(lw.workspace._id,
                         NullishToUndefined(in.folderId), lookup)
        timestamp == now
        updated == applyRequestUpdate(request, in, newParent.id, timestamp)
    IN IF lw.err # "none" THEN Throw(lw.err)
       ELSE IF parseFails(fldFile) \/ parseFails(reqFile) THEN Throw("Parse")
       ELSE IF i = 0 \/ ~requestBelongsToWorkspace(request, lw.workspace._id, lookup)
       THEN Throw("RequestNotFound")
       ELSE IF in.folderId # Undefined /\ newParent.err # "none" THEN Throw(newParent.err)
       ELSE Proceed(<<Write("req", [requests EXCEPT ![i] = updated]),
                      Write("ws", Stamp(lw.all, lw.workspace._id, timestamp))>>,
                    Some(toStoredRequest(updated, lw.workspace._id)), timestamp, nextId)

deleteRequest(in) ==
    LET lw == loadWorkspace(in.collectionId)
        requestGroups == readRequestGroupRecords(fldFile)
        lookup == buildFolderLookup(requestGroups)
        requests == readRequestRecords(reqFile)
        index == FindIndex(requests, LAMBDA r : r._id = in.requestId)
    IN IF lw.err # "none" THEN Throw(lw.err)
       ELSE IF parseFails(fldFile) \/ parseFails(reqFile) THEN Throw("Parse")
       ELSE IF index = 0 THEN Throw("RequestNotFound")
       ELSE IF ~requestBelongsToWorkspace(requests[index], lw.workspace._id, lookup)
       THEN Throw("RequestNotFound")
       ELSE Proceed(<<Write("req", RemoveAt(requests, index)),
                      WriteLate("ws", lw.all, lw.workspace._id)>>,
                    None, now, nextId)

getRequest(in) ==
    LET lw == loadWorkspace(in.collectionId)
        requestGroups == readRequestGroupRecords(fldFile)
        lookup == buildFolderLookup(requestGroups)
        requests == readRequestRecords(reqFile)
        i == FindIndex(requests, LAMBDA r : r._id = in.requestId)
    IN IF lw.err # "none" THEN Throw(lw.err)
       ELSE IF parseFails(fldFile) \/ parseFails(reqFile) THEN Throw("Parse")
       ELSE IF i = 0 \/ ~requestBelongsToWorkspace(requests[i], lw.workspace._id, lookup)
       THEN Throw("RequestNotFound")
       ELSE Proceed(<<>>, Some(toStoredRequest(requests[i], lw.workspace._id)), now, nextId)

----------------------------------------------------------------------------
(* environments.ts                                                         *)

getEnvironment(in) ==
    LET lw == loadWorkspace(in.collectionId)
        environments == readEnvironmentRecords(envFile)
        i == FindIndex(environments, LAMBDA r : r.parentId = lw.workspace._id)
    IN IF lw.err # "none" THEN Throw(lw.err)
       ELSE IF parseFails(envFile) THEN Throw("Parse")
       ELSE IF i = 0 THEN Throw("EnvironmentNotFound")
       ELSE Proceed(<<>>, Some(toStoredEnvironment(environments[i])), now, nextId)

\* `environment.data?.[key]`: a value, or undefined
getEnvironmentVariable(in) ==
    LET lw == loadWorkspace(in.collectionId)
        environments == readEnvironmentRecords(envFile)
        i == FindIndex(environments, LAMBDA r : r.parentId = lw.workspace._id)
        data == environments[i].data
    IN IF lw.err # "none" THEN Throw(lw.err)
       ELSE IF parseFails(envFile) THEN Throw("Parse")
       ELSE IF i = 0 THEN Throw("EnvironmentNotFound")
       ELSE Proceed(<<>>, IF in.key \in DOMAIN data THEN Some(data[in.key]) ELSE None,
                    now, nextId)

\* a data object holding the one key just set
SetKeyAlone(data, key, value) == [k \in {key} |-> value]

\* data[key] = value
SetKey(data, key, value) == [k \in DOMAIN data \cup {key} |->
                                IF k = key THEN value ELSE data[k]]

setEnvironmentVariable(in) ==
    LET lw == loadWorkspace(in.collectionId)
        environments == readEnvironmentRecords(envFile)
        i == FindIndex(environments, LAMBDA r : r.parentId = lw.workspace._id)
        timestamp == now
        environment == [environments[i] EXCEPT
                           !.data = SetKey(@, in.key, in.value),
                           !.modified = timestamp]
    IN IF lw.err # "none" THEN Throw(lw.err)
       ELSE IF parseFails(envFile) THEN Throw("Parse")
       ELSE IF i = 0 THEN Throw("EnvironmentNotFound")
       ELSE Proceed(<<Write("env", [environments EXCEPT ![i] = environment]),
                      Write("ws", Stamp(lw.all, lw.workspace._id, timestamp))>>,
                    Some(toStoredEnvironment(environment)), timestamp, nextId)

----------------------------------------------------------------------------
(* The state machine: a call starts an operation (its reads and in-memory  *)
(* work, up to its first file write), each file write is a step of its     *)
(* own, and the caller then takes the outcome.                             *)

Init ==
    /\ wsFile = <<>>
    /\ fldFile = <<>>
    /\ reqFile = <<>>
    /\ envFile = <<>>
    /\ now = 0
    /\ nextId = [wrk |-> 0, fld |-> 0, req |-> 0, env |-> 0]
    /\ cur = Idle
    /\ pending = <<>>
    /\ failures = 0
    /\ procs = [p \in 1..2 |-> [cur |-> Idle, pending |-> <<>>]]
    /\ lastWriter = [ws |-> 0, fld |-> 0, req |-> 0, env |-> 0]
    /\ notified = <<>>
    /\ walk = NoWalk
    /\ plugin = NoPlugin
    /\ text = <<>>

\* the call as it stands when its reads and checks are done
Started(op, in, out) ==
    [op |-> op, in |-> in,
     pc |-> IF out.err = "none" /\ Len(out.writes) > 0 THEN "writing" ELSE "done",
     err |-> out.err, result |-> out.result, pre |-> Files, at |-> now,
     ts |-> out.ts]

Begin(op, in, out) ==
    /\ cur.pc = "idle"
    /\ cur' = Started(op, in, out)
    /\ pending' = out.writes
    /\ nextId' = out.ids
    /\ UNCHANGED <<wsFile, fldFile, reqFile, envFile, now, failures, aside>>

CreateCollection(in) == Begin("createCollection", in, createCollection(in))
GetCollection(in) == Begin("getCollection", in, getCollection(in))
ListCollections == Begin("listCollections", <<>>, listCollections)
EnsureSampleData == Begin("ensureSampleData", <<>>, ensureSampleData)
CreateFolder(in) == Begin("createFolder", in, createFolder(in))
UpdateFolder(in) == Begin("updateFolder", in, updateFolder(in))
DeleteFolder(in) == Begin("deleteFolder", in, deleteFolder(in))
GetFolder(in) == Begin("getFolder", in, getFolder(in))
CreateRequest(in) == Begin("createRequest", in, createRequest(in))
UpdateRequest(in) == Begin("updateRequest", in, updateRequest(in))
DeleteRequest(in) == Begin("deleteRequest", in, deleteRequest(in))
GetRequest(in) == Begin("getRequest", in, getRequest(in))
GetEnvironment(in) == Begin("getEnvironment", in, getEnvironment(in))
SetEnvironmentVariable(in) == Begin("setEnvironmentVariable", in, setEnvironmentVariable(in))
GetEnvironmentVariable(in) == Begin("getEnvironmentVariable", in, getEnvironmentVariable(in))

\* a rewrite that keeps the records on disk that the writer did not know of
writtenMerged(w, onDisk) ==
    SelectSeq(onDisk, LAMBDA r : r._id \notin Ids(w.recs)) \o w.recs

\* what a file holds once write*Records(w.recs) is done: the records written,
\* whatever it held (createCollection reads the environment file just before)
written(w, onDisk) ==
    IF w.mode = "readPush" THEN readEnvironmentRecords(onDisk) \o w.recs ELSE w.recs

OnDisk(file) ==
    CASE file = "ws" -> wsFile [] file = "fld" -> fldFile
      [] file = "req" -> reqFile [] file = "env" -> envFile

\* writeNdjsonRecords completes: the file holds exactly the records written.
\* The code that follows the await runs in the same step: a late
\* `timestamp = nowMillis(); workspace.modified = timestamp`.
\* Where the write is createCollection's read-push-write and the read throws,
\* the operation ends there with that error and the file is not written.
WriteFile ==
    /\ cur.pc = "writing"
    /\ Len(pending) > 0
    /\ LET w == Head(pending)
           readThrows == w.mode = "readPush" /\ parseFails(OnDisk(w.file))
           content == IF readThrows THEN OnDisk(w.file) ELSE written(w, OnDisk(w.file))
           rest == IF readThrows THEN <<>> ELSE Tail(pending)
           stamped == IF Len(rest) > 0 /\ rest[1].late # Undefined
                      THEN [rest EXCEPT ![1].recs = Stamp(@, rest[1].late, now),
                                        ![1].late = Undefined]
                      ELSE rest
       IN /\ wsFile' = IF w.file = "ws" THEN content ELSE wsFile
          /\ fldFile' = IF w.file = "fld" THEN content ELSE fldFile
          /\ reqFile' = IF w.file = "req" THEN content ELSE reqFile
          /\ envFile' = IF w.file = "env" THEN content ELSE envFile
          /\ pending' = stamped
          /\ cur' = [cur EXCEPT
                        !.pc = IF Len(rest) = 0 THEN "done" ELSE "writing",
                        !.err = IF readThrows THEN "Parse" ELSE @,
                        !.result = IF readThrows THEN None ELSE @,
                        !.ts = IF Len(rest) > 0 /\ rest[1].late # Undefined THEN now ELSE @]
    /\ UNCHANGED <<now, nextId, failures, aside>>

\* fs.writeFile (or the mkdir before it) rejects: the operation throws
WriteFileFails ==
    /\ cur.pc = "writing"
    /\ Len(pending) > 0
    /\ cur' = [cur EXCEPT !.pc = "done", !.err = "IO", !.result = None]
    /\ pending' = <<>>
    /\ failures' = failures + 1
    /\ UNCHANGED <<wsFile, fldFile, reqFile, envFile, now, nextId, aside>>

\* the caller has the outcome; the next call may start
Return ==
    /\ cur.pc = "done"
    /\ cur' = Idle
    /\ UNCHANGED <<wsFile, fldFile, reqFile, envFile, now, nextId, pending, failures,
                   aside>>

\* time passes (Date.now() never goes back)
Tick ==
    /\ now < MaxClock
    /\ now' = now + 1
    /\ UNCHANGED <<wsFile, fldFile, reqFile, envFile, nextId, cur, pending, failures,
                   aside>>

----------------------------------------------------------------------------
(* Inputs.                                                                 *)

CollectionIds == {createId("wrk", i) : i \in 1..MaxCollections}
FolderIds == {createId("fld", i) : i \in 1..MaxFolders}
RequestIds == {createId("req", i) : i \in 1..MaxRequests}

CreateCollectionInputs == [name : {"API"}, description : {Undefined}]
CollectionInputs == [collectionId : CollectionIds]

\* calls that name collections among cols, folders among flds, requests
\* among reqs, and that set no field but the parent
CreateFolderInputsOver(cols, flds) ==
    [collectionId : cols, name : {"Auth"}, description : {Undefined},
     parentId : {Undefined} \cup cols \cup flds]
UpdateFolderInputsOver(cols, flds) ==
    [collectionId : cols, folderId : flds, name : {Undefined}, description : {Undefined},
     parentId : {Undefined, Null} \cup cols \cup flds]
FolderInputsOver(cols, flds) == [collectionId : cols, folderId : flds]
CreateRequestInputsOver(cols, flds) ==
    [collectionId : cols, name : {"Login"}, method : {"post"},
     url : {"https://x/login"}, headers : {Undefined}, body : {Undefined},
     description : {Undefined}, folderId : {Undefined} \cup cols \cup flds,
     preRequestScript : {Undefined}, afterResponseScript : {Undefined}]
UpdateRequestInputsOver(cols, flds, reqs) ==
    [collectionId : cols, requestId : reqs, name : {Undefined},
     method : {Undefined}, url : {Undefined}, headers : {Undefined}, body : {Undefined},
     description : {Undefined}, folderId : {Undefined, Null} \cup cols \cup flds,
     preRequestScript : {Undefined}, afterResponseScript : {Undefined}]
RequestInputsOver(cols, reqs) == [collectionId : cols, requestId : reqs]

CreateFolderInputs == CreateFolderInputsOver(CollectionIds, FolderIds)
UpdateFolderInputs == UpdateFolderInputsOver(CollectionIds, FolderIds)
FolderInputs == FolderInputsOver(CollectionIds, FolderIds)
CreateRequestInputs == CreateRequestInputsOver(CollectionIds, FolderIds)
UpdateRequestInputs == UpdateRequestInputsOver(CollectionIds, FolderIds, RequestIds)
RequestInputs == RequestInputsOver(CollectionIds, RequestIds)

----------------------------------------------------------------------------
(* Spec: operations issued one at a time on the folder/request tree, every *)
(* file write succeeding.                                                  *)

Next ==
    \/ \E in \in CreateCollectionInputs :
          nextId.wrk < MaxCollections /\ nextId.env < MaxEnvironments
             /\ CreateCollection(in)
    \/ \E in \in CreateFolderInputs : nextId.fld < MaxFolders /\ CreateFolder(in)
    \/ \E in \in UpdateFolderInputs : UpdateFolder(in)
    \/ \E in \in FolderInputs : DeleteFolder(in)
    \/ \E in \in FolderInputs : GetFolder(in)
    \/ \E in \in CreateRequestInputs : nextId.req < MaxRequests /\ CreateRequest(in)
    \/ \E in \in UpdateRequestInputs : UpdateRequest(in)
    \/ \E in \in RequestInputs : DeleteRequest(in)
    \/ \E in \in RequestInputs : GetRequest(in)
    \/ \E in \in CollectionInputs : GetCollection(in)
    \/ ListCollections
    \/ WriteFile
    \/ Return

Spec == Init /\ [][Next]_vars

(* SpecIO: the same, where any file write may fail.                        *)

NextIO ==
    \/ Next
    \/ failures < MaxWriteFailures /\ WriteFileFails

SpecIO == Init /\ [][NextIO]_vars

----------------------------------------------------------------------------
(* What the claims speak of, stated on the files themselves.               *)

Recs(file) == {file[i] : i \in 1..Len(file)}

\* the parentId of the folder record(s) carrying this id
ParentOf(fld, id) == (CHOOSE r \in Recs(fld) : r._id = id).parentId

\* the workspace the parent chain starting at id ends in, following each
\* folder at most once; Undefined when it ends elsewhere or runs in a circle
RECURSIVE ChainRoot(_, _, _, _)
ChainRoot(ws, fld, id, seen) ==
    IF id \in Ids(ws) THEN id
    ELSE IF id \notin Ids(fld) \/ id \in seen THEN Undefined
    ELSE ChainRoot(ws, fld, ParentOf(fld, id), seen \cup {id})

Owner(files, id) == ChainRoot(files.ws, files.fld, id, {})

\* a is reached from d by following parentId upward (d = a included)
RECURSIVE ReachesUp(_, _, _, _)
ReachesUp(fld, d, a, seen) ==
    IF d = a THEN TRUE
    ELSE IF d \notin Ids(fld) \/ d \in seen THEN FALSE
    ELSE ReachesUp(fld, ParentOf(fld, d), a, seen \cup {d})

\* the folder itself and its transitive descendants
Subtree(fld, a) == {d \in Ids(fld) : ReachesUp(fld, d, a, {})}

Done(op) == cur.op = op /\ cur.pc = "done"
Succeeded(op) == Done(op) /\ cur.err = "none"
NotFoundKinds == {"CollectionNotFound", "FolderNotFound", "FolderNotInCollection",
                  "RequestNotFound"}

----------------------------------------------------------------------------
\* C1: from the empty store, whatever calls were made and whether they
\* succeeded or failed, the parent chain of every folder in the folder file
\* ends in a workspace of the workspace file without passing a folder twice.
C1_FolderGraphRootedAcyclic ==
    \A f \in Recs(fldFile) : Owner(Files, f._id) \in Ids(wsFile)

\* a folder nested two levels deep, after a folder move went through
C1_Witness ==
    /\ Succeeded("updateFolder")
    /\ cur.in.parentId \in FolderIds
    /\ \E f \in Recs(fldFile) :
          /\ f.parentId \in Ids(fldFile)
          /\ ParentOf(fldFile, f.parentId) \in Ids(fldFile)

\* C2: updateFolder naming as new parent the folder itself or one of its
\* transitive descendants never gets to a write: it fails, with the cycle
\* error when the folder belongs to the named collection, and all four
\* files hold what they held before the call.
C2_CycleRejectedNothingWritten ==
    (/\ cur.op = "updateFolder"
     /\ cur.in.folderId \in Ids(cur.pre.fld)
     /\ cur.in.parentId \in Subtree(cur.pre.fld, cur.in.folderId))
    => /\ cur.pc = "done"
       /\ cur.err # "none"
       /\ Owner(cur.pre, cur.in.folderId) = cur.in.collectionId => cur.err = "FolderCycle"
       /\ Files = cur.pre

\* the move of a folder under its grandchild was rejected
C2_Witness ==
    /\ Done("updateFolder")
    /\ cur.err = "FolderCycle"
    /\ cur.in.parentId \in Ids(cur.pre.fld)
    /\ ParentOf(cur.pre.fld, cur.in.parentId) # cur.in.folderId
    /\ cur.in.parentId # cur.in.folderId

\* C3: a successful deleteFolder removes from the folder file exactly the
\* folder's subtree and from the request file exactly the requests parented
\* in that subtree; every other folder and request record, every environment
\* and every workspace field but the collection's modified stamp is as before.
C3_DeleteRemovesExactlySubtree ==
    Succeeded("deleteFolder") =>
        LET D == Subtree(cur.pre.fld, cur.in.folderId)
        IN /\ fldFile = SelectSeq(cur.pre.fld, LAMBDA r : r._id \notin D)
           /\ reqFile = SelectSeq(cur.pre.req, LAMBDA r : r.parentId \notin D)
           /\ envFile = cur.pre.env
           /\ Len(wsFile) = Len(cur.pre.ws)
           /\ \A i \in 1..Len(wsFile) :
                 wsFile[i] = IF wsFile[i]._id = cur.in.collectionId
                             THEN [cur.pre.ws[i] EXCEPT !.modified = cur.ts]
                             ELSE cur.pre.ws[i]

\* a folder with a child folder and a request below was deleted while a
\* sibling folder stayed
C3_Witness ==
    /\ Succeeded("deleteFolder")
    /\ \E c \in Recs(cur.pre.fld) : c.parentId = cur.in.folderId
    /\ \E r \in Recs(cur.pre.req) :
          r.parentId \in Subtree(cur.pre.fld, cur.in.folderId) \ {cur.in.folderId}
    /\ Len(fldFile) > 0
    /\ Len(reqFile) < Len(cur.pre.req)

\* C4: when no operation is under way and none has failed on a write, every
\* request's parentId names a workspace or a folder on file, and so does
\* every folder's parentId.
C4_NoOrphans ==
    cur.pc # "writing" =>
        /\ \A r \in Recs(reqFile) : r.parentId \in Ids(wsFile) \cup Ids(fldFile)
        /\ \A f \in Recs(fldFile) : f.parentId \in Ids(wsFile) \cup Ids(fldFile)

\* a folder holding a child folder with a request in it has been deleted
C4_Witness ==
    /\ Succeeded("deleteFolder")
    /\ \E r \in Recs(cur.pre.req) :
          /\ r.parentId # cur.in.folderId
          /\ r.parentId \in Subtree(cur.pre.fld, cur.in.folderId)

\* C5: whatever file write was the last, every workspace of scope
\* 'collection' on file has exactly one environment record on file.
C5_ExactlyOneEnvironment ==
    \A w \in Recs(wsFile) :
        w.scope = COLLECTION_SCOPE =>
            Cardinality({i \in 1..Len(envFile) : envFile[i].parentId = w._id}) = 1

\* the workspace that owns the request with this id
RequestOwner(files, id) ==
    Owner(files, (CHOOSE r \in Recs(files.req) : r._id = id).parentId)

\* an existing folder / request owned by another workspace than the one the
\* call in flight is scoped to, that workspace existing too
ForeignFolder(id) ==
    /\ cur.in.collectionId \in Ids(cur.pre.ws)
    /\ id \in Ids(cur.pre.fld)
    /\ Owner(cur.pre, id) \in Ids(cur.pre.ws) \ {cur.in.collectionId}
ForeignRequest(id) ==
    /\ cur.in.collectionId \in Ids(cur.pre.ws)
    /\ id \in Ids(cur.pre.req)
    /\ RequestOwner(cur.pre, id) \in Ids(cur.pre.ws) \ {cur.in.collectionId}

Rejected == cur.pc = "done" /\ cur.err \in NotFoundKinds /\ Files = cur.pre

\* every folder and request a collection is returned with is owned by it
OwnEntitiesOnly(collection) ==
    /\ \A i \in 1..Len(collection.folders) :
          Owner(cur.pre, collection.folders[i].id) = collection.id
    /\ \A i \in 1..Len(collection.requests) :
          RequestOwner(cur.pre, collection.requests[i].id) = collection.id

\* C6: what getCollection, listCollections, getFolder and getRequest return
\* for a workspace is owned by that workspace; and updateFolder, deleteFolder,
\* updateRequest and deleteRequest scoped to one workspace and naming a folder
\* or request of another (as the entity, or as the new parent) end in a
\* not-found error having written nothing.
C6_MembershipIsolation ==
    /\ (cur.op = "getCollection" /\ cur.err = "none" /\ Len(cur.result) > 0)
          => cur.result[1].id = cur.in.collectionId /\ OwnEntitiesOnly(cur.result[1])
    /\ (cur.op = "listCollections" /\ cur.err = "none")
          => \A i \in 1..Len(cur.result[1]) : OwnEntitiesOnly(cur.result[1][i])
    /\ (cur.op = "getFolder" /\ cur.err = "none")
          => Owner(cur.pre, cur.result[1].id) = cur.in.collectionId
    /\ (cur.op = "getRequest" /\ cur.err = "none")
          => RequestOwner(cur.pre, cur.result[1].id) = cur.in.collectionId
    /\ (cur.op \in {"updateFolder", "deleteFolder"} /\ ForeignFolder(cur.in.folderId))
          => Rejected
    /\ (cur.op = "updateFolder" /\ ForeignFolder(cur.in.parentId)) => Rejected
    /\ (cur.op \in {"updateRequest", "deleteRequest"} /\ ForeignRequest(cur.in.requestId))
          => Rejected
    /\ (cur.op = "updateRequest" /\ ForeignFolder(cur.in.folderId)) => Rejected

\* a folder of one collection was to be moved under a folder of another
C6_Witness ==
    /\ Done("updateFolder")
    /\ ForeignFolder(cur.in.parentId)
    /\ Owner(cur.pre, cur.in.folderId) = cur.in.collectionId
    /\ cur.err = "FolderNotInCollection"

----------------------------------------------------------------------------
(* SpecFields: the fields of requests. One request is created and updated  *)
(* field by field, next to requests that are only created.                 *)

NoRequestUpdate(collectionId, requestId) ==
    [collectionId |-> collectionId, requestId |-> requestId, name |-> Undefined,
     method |-> Undefined, url |-> Undefined, headers |-> Undefined, body |-> Undefined,
     description |-> Undefined, folderId |-> Undefined, preRequestScript |-> Undefined,
     afterResponseScript |-> Undefined]

FieldsCollectionIds == {createId("wrk", i) : i \in 1..FieldsCollections}
FieldsFolderIds == {createId("fld", i) : i \in 1..FieldsFolders}

FieldsCreateFolderInputs ==
    [collectionId : FieldsCollectionIds, name : {"Auth"}, description : {Undefined},
     parentId : {Undefined}]

FieldsCreateRequestInputs ==
    {[collectionId |-> c, name |-> "Login", method |-> "post", url |-> "https://x/login",
      headers |-> t.headers, body |-> t.body, description |-> t.description,
      folderId |-> t.folderId, preRequestScript |-> t.pre, afterResponseScript |-> t.post] :
       c \in FieldsCollectionIds,
       t \in {[headers |-> Undefined, body |-> Undefined, description |-> Undefined,
               folderId |-> Undefined, pre |-> Undefined, post |-> Undefined],
              [headers |-> "[{Accept: json}]", body |-> "{text: a}", description |-> "d1",
               folderId |-> createId("fld", 1), pre |-> "s1", post |-> "s1"],
              [headers |-> "[{Accept: json}]", body |-> Null, description |-> Undefined,
               folderId |-> Null, pre |-> "", post |-> " "]}}

FieldsUpdateRequestInputs ==
    UNION {LET none == NoRequestUpdate(c, createId("req", 1)) IN
           {none}
           \cup {[none EXCEPT !.name = "new"]}
           \cup {[none EXCEPT !.method = "get"]}
           \cup {[none EXCEPT !.url = "https://x/v2"]}
           \cup {[none EXCEPT !.headers = "[]"]}
           \cup {[none EXCEPT !.body = v] : v \in {Null, "{text: b}"}}
           \cup {[none EXCEPT !.description = v] : v \in {Null, "d2"}}
           \cup {[none EXCEPT !.folderId = v] : v \in {Null} \cup FieldsFolderIds}
           \cup {[none EXCEPT !.preRequestScript = v] : v \in {Null, "", " ", " s1 "}}
           \cup {[none EXCEPT !.afterResponseScript = v] : v \in {Null, "", "s2"}}
           \cup {[none EXCEPT !.name = "new", !.method = "Put", !.preRequestScript = Null,
                               !.afterResponseScript = "s2"]}
           : c \in FieldsCollectionIds}

NextFields ==
    \/ \E in \in CreateCollectionInputs :
          nextId.wrk < FieldsCollections /\ nextId.env < MaxEnvironments
             /\ CreateCollection(in)
    \/ \E in \in FieldsCreateFolderInputs : nextId.fld < FieldsFolders /\ CreateFolder(in)
    \/ \E in \in FieldsCreateRequestInputs : nextId.req < FieldsRequests /\ CreateRequest(in)
    \/ \E in \in FieldsUpdateRequestInputs : UpdateRequest(in)
    \/ WriteFile
    \/ Return

SpecFields == Init /\ [][NextFields]_vars

\* the place of the updated request in the request file before the call
UpdatedIndex == CHOOSE i \in 1..Len(cur.pre.req) : cur.pre.req[i]._id = cur.in.requestId

\* C7: a successful updateRequest leaves every stored field whose input is
\* undefined as it was (an update with only a name leaves method, url,
\* headers, body, parent, description and both scripts as they were), and
\* leaves every other request record as it was.
C7_PartialUpdateLeavesRest ==
    Succeeded("updateRequest") =>
        LET i == UpdatedIndex
            old == cur.pre.req[i]
            new == reqFile[i]
        IN /\ Len(reqFile) = Len(cur.pre.req)
           /\ \A j \in 1..Len(reqFile) : j # i => reqFile[j] = cur.pre.req[j]
           /\ new._id = old._id /\ new.type = old.type /\ new.created = old.created
           /\ cur.in.name = Undefined => new.name = old.name
           /\ cur.in.method = Undefined => new.method = old.method
           /\ cur.in.url = Undefined => new.url = old.url
           /\ cur.in.headers = Undefined => new.headers = old.headers
           /\ cur.in.body = Undefined => new.body = old.body
           /\ cur.in.folderId = Undefined => new.parentId = old.parentId
           /\ cur.in.description = Undefined => new.description = old.description
           /\ cur.in.preRequestScript = Undefined
                 => new.preRequestScript = old.preRequestScript
           /\ cur.in.afterResponseScript = Undefined
                 => new.afterResponseScript = old.afterResponseScript

\* a name-only update of a request that sits in a folder and has a body, a
\* description and both scripts, with another request on file
C7_Witness ==
    /\ Succeeded("updateRequest")
    /\ cur.in = [NoRequestUpdate(cur.in.collectionId, cur.in.requestId) EXCEPT !.name = "new"]
    /\ Len(reqFile) = 2
    /\ LET old == cur.pre.req[UpdatedIndex]
       IN /\ old.parentId \in Ids(fldFile)
          /\ old.body # Null
          /\ old.description # Undefined
          /\ old.preRequestScript # Undefined
          /\ old.afterResponseScript # Undefined
          /\ old.name # "new"
          /\ reqFile[UpdatedIndex].name = "new"

----------------------------------------------------------------------------
(* SpecClock: the mutating operations while time passes, between calls and *)
(* between the steps of a call.                                            *)

ClockFolderIds == {createId("fld", i) : i \in 1..ClockFolders}
ClockRequestIds == {createId("req", i) : i \in 1..ClockRequests}
SetVariableInputs == [collectionId : CollectionIds, key : {"token"}, value : {"abc"}]

NextClock ==
    \/ \E in \in CreateCollectionInputs :
          nextId.wrk < MaxCollections /\ nextId.env < MaxEnvironments
             /\ CreateCollection(in)
    \/ \E in \in CreateFolderInputsOver(CollectionIds, ClockFolderIds) :
          nextId.fld < ClockFolders /\ CreateFolder(in)
    \/ \E in \in UpdateFolderInputsOver(CollectionIds, ClockFolderIds) : UpdateFolder(in)
    \/ \E in \in FolderInputsOver(CollectionIds, ClockFolderIds) : DeleteFolder(in)
    \/ \E in \in CreateRequestInputsOver(CollectionIds, ClockFolderIds) :
          nextId.req < ClockRequests /\ CreateRequest(in)
    \/ \E in \in UpdateRequestInputsOver(CollectionIds, ClockFolderIds, ClockRequestIds) :
          UpdateRequest(in)
    \/ \E in \in RequestInputsOver(CollectionIds, ClockRequestIds) : DeleteRequest(in)
    \/ \E in \in SetVariableInputs : SetEnvironmentVariable(in)
    \/ WriteFile
    \/ Return
    \/ Tick

SpecClock == Init /\ [][NextClock]_vars

BumpingOps == {"createFolder", "updateFolder", "deleteFolder", "createRequest",
               "updateRequest", "deleteRequest", "setEnvironmentVariable"}

\* the modified stamp the operation put on the entity it created or updated
EntityStamp ==
    CASE cur.op \in {"createFolder", "updateFolder"} ->
            (CHOOSE r \in Recs(fldFile) : r._id = cur.result[1].id).modified
      [] cur.op \in {"createRequest", "updateRequest"} ->
            (CHOOSE r \in Recs(reqFile) : r._id = cur.result[1].id).modified
      [] cur.op = "setEnvironmentVariable" ->
            (CHOOSE r \in Recs(envFile) : r._id = cur.result[1].id).modified
      [] OTHER -> cur.ts

\* C9: when one of the seven tree mutations or setEnvironmentVariable has
\* succeeded on collection C, C's workspace record differs from what it was
\* before the call in modified alone, which is the operation's timestamp (a
\* clock reading taken during the call, the one stamped on the entity it
\* wrote, and not lower than the old value), and every other workspace record
\* is as it was.
C9_WorkspaceModifiedBumped ==
    (cur.op \in BumpingOps /\ cur.pc = "done" /\ cur.err = "none") =>
        /\ Len(wsFile) = Len(cur.pre.ws)
        /\ cur.at <= cur.ts /\ cur.ts <= now
        /\ cur.ts = EntityStamp
        /\ \A i \in 1..Len(wsFile) :
              IF cur.pre.ws[i]._id = cur.in.collectionId
              THEN /\ wsFile[i] = [cur.pre.ws[i] EXCEPT !.modified = cur.ts]
                   /\ wsFile[i].modified >= cur.pre.ws[i].modified
              ELSE wsFile[i] = cur.pre.ws[i]

\* a request was deleted from a collection last touched earlier, the clock
\* having moved on during the call, with another collection on file
C9_Witness ==
    /\ Succeeded("deleteRequest")
    /\ Len(wsFile) = 2
    /\ cur.at < cur.ts
    /\ \E i \in 1..Len(wsFile) :
          /\ wsFile[i]._id = cur.in.collectionId
          /\ cur.pre.ws[i].modified < cur.at

\* C10: whenever deleteFolder has raised an error, a failed file write
\* included, the folder file and the request file hold what they held before
\* the call.
C10_DeleteFolderAllOrNothing ==
    (cur.op = "deleteFolder" /\ cur.pc = "done" /\ cur.err # "none") =>
        /\ fldFile = cur.pre.fld
        /\ reqFile = cur.pre.req

----------------------------------------------------------------------------
(* SpecRace: two callers whose operations overlap. Each operation reads    *)
(* when it starts and then awaits its file writes one by one; the other    *)
(* caller's steps may fall between any two of them.                        *)

RaceCollectionIds == {createId("wrk", i) : i \in 1..RaceCollections}
RaceFolderIds == {createId("fld", i) : i \in 1..RaceFolders}

RaceBegin(p, op, in, out) ==
    /\ procs[p].cur.pc = "idle"
    /\ procs' = [procs EXCEPT ![p] = [cur |-> Started(op, in, out), pending |-> out.writes]]
    /\ nextId' = out.ids
    /\ UNCHANGED <<wsFile, fldFile, reqFile, envFile, now, cur, pending, failures,
                   lastWriter, text, notified, walk, plugin>>

\* createCollection's readEnvironmentRecords and push, an await before its
\* writeEnvironmentRecords
RaceRead(p) ==
    /\ procs[p].cur.pc = "writing"
    /\ Len(procs[p].pending) > 0
    /\ Head(procs[p].pending).mode = "readPush"
    /\ LET w == Head(procs[p].pending)
       IN procs' = [procs EXCEPT ![p].pending =
                       <<Write(w.file, written(w, OnDisk(w.file)))>> \o Tail(@)]
    /\ UNCHANGED <<wsFile, fldFile, reqFile, envFile, now, nextId, cur, pending,
                   failures, lastWriter, text, notified, walk, plugin>>

\* one of the caller's write*Records completes
RaceWrite(p) ==
    /\ procs[p].cur.pc = "writing"
    /\ Len(procs[p].pending) > 0
    /\ Head(procs[p].pending).mode = "replace"
    /\ LET w == Head(procs[p].pending)
           content == written(w, OnDisk(w.file))
           rest == Tail(procs[p].pending)
           late == Len(rest) > 0 /\ rest[1].late # Undefined
           stamped == IF late
                      THEN [rest EXCEPT ![1].recs = Stamp(@, rest[1].late, now),
                                        ![1].late = Undefined]
                      ELSE rest
       IN /\ wsFile' = IF w.file = "ws" THEN content ELSE wsFile
          /\ fldFile' = IF w.file = "fld" THEN content ELSE fldFile
          /\ reqFile' = IF w.file = "req" THEN content ELSE reqFile
          /\ envFile' = IF w.file = "env" THEN content ELSE envFile
          /\ lastWriter' = [lastWriter EXCEPT ![w.file] = p]
          /\ procs' = [procs EXCEPT
                          ![p].pending = stamped,
                          ![p].cur.pc = IF Len(rest) = 0 THEN "done" ELSE "writing",
                          ![p].cur.ts = IF late THEN now ELSE @]
    /\ UNCHANGED <<now, nextId, cur, pending, failures, text, notified, walk, plugin>>

RaceReturn(p) ==
    /\ procs[p].cur.pc = "done"
    /\ procs' = [procs EXCEPT ![p].cur = Idle]
    /\ UNCHANGED <<wsFile, fldFile, reqFile, envFile, now, nextId, cur, pending,
                   failures, lastWriter, text, notified, walk, plugin>>

NextRace ==
    \E p \in 1..2 :
       \/ \E in \in CreateCollectionInputs :
             nextId.wrk < RaceCollections
                /\ RaceBegin(p, "createCollection", in, createCollection(in))
       \/ \E in \in CreateFolderInputsOver(RaceCollectionIds, RaceFolderIds) :
             nextId.fld < RaceFolders /\ RaceBegin(p, "createFolder", in, createFolder(in))
       \/ RaceRead(p)
       \/ RaceWrite(p)
       \/ RaceReturn(p)

SpecRace == Init /\ [][NextRace]_vars

\* the file a creating operation appends its new record to
CreatedIn(op) ==
    CASE op = "createCollection" -> "ws"
      [] op = "createFolder" -> "fld"

\* callers p and q have both run the same creating operation to its end, each
\* having read the operation's file before the other wrote it, q writing last
Raced(p, q) ==
    /\ p # q
    /\ procs[p].cur.pc = "done" /\ procs[q].cur.pc = "done"
    /\ procs[p].cur.op = procs[q].cur.op
    /\ Len(procs[p].cur.result) > 0 /\ Len(procs[q].cur.result) > 0
    /\ LET f == CreatedIn(procs[p].cur.op)
       IN /\ procs[p].cur.pre[f] = procs[q].cur.pre[f]
          /\ lastWriter[f] = q

\* C11: when two creating operations on one file have both read it before
\* either wrote it, both complete without error, and the file finally holds
\* what the later writer read plus the later writer's record alone: the
\* earlier writer's record is not on file.
C11_LastWriterWins ==
    \A p, q \in 1..2 :
       Raced(p, q) =>
          LET f == CreatedIn(procs[p].cur.op)
              pre == procs[q].cur.pre[f]
              file == OnDisk(f)
          IN /\ procs[p].cur.err = "none" /\ procs[q].cur.err = "none"
             /\ Len(file) = Len(pre) + 1
             /\ SubSeq(file, 1, Len(pre)) = pre
             /\ file[Len(file)]._id = procs[q].cur.result[1].id
             /\ procs[p].cur.result[1].id \notin Ids(file)

\* two createFolder calls overlapped, the second caller writing last
C11_Witness ==
    /\ Raced(1, 2)
    /\ procs[1].cur.op = "createFolder"
    /\ procs[1].cur.result[1].id = "fld_1"
    /\ Ids(fldFile) = {"fld_2"}

----------------------------------------------------------------------------
(* SpecCorrupt: the data files are also written from outside the program   *)
(* (Insomnia itself, an editor); such a write may leave a line that is     *)
(* not JSON.                                                               *)

FileNames == {"ws", "fld", "req", "env"}

BadLines == Cardinality({<<f, i>> \in FileNames \X (1..8) :
                            i <= Len(OnDisk(f)) /\ OnDisk(f)[i].type = BadLine.type})

\* a line that is not JSON is appended to file f while no call is in progress
Scribble(f) ==
    /\ cur.pc = "idle"
    /\ BadLines < MaxBadLines
    /\ wsFile' = IF f = "ws" THEN Append(wsFile, BadLine) ELSE wsFile
    /\ fldFile' = IF f = "fld" THEN Append(fldFile, BadLine) ELSE fldFile
    /\ reqFile' = IF f = "req" THEN Append(reqFile, BadLine) ELSE reqFile
    /\ envFile' = IF f = "env" THEN Append(envFile, BadLine) ELSE envFile
    /\ UNCHANGED <<now, nextId, cur, pending, failures, aside>>

CorruptCollectionIds == {createId("wrk", i) : i \in 1..CorruptCollections}
CorruptFolderIds == {createId("fld", i) : i \in 1..CorruptFolders}
CorruptRequestIds == {createId("req", i) : i \in 1..CorruptRequests}

NextCorrupt ==
    \/ \E f \in FileNames : Scribble(f)
    \/ \E in \in CreateCollectionInputs :
          nextId.wrk < CorruptCollections /\ CreateCollection(in)
    \/ \E in \in CreateFolderInputsOver(CorruptCollectionIds, {}) :
          nextId.fld < CorruptFolders /\ CreateFolder(in)
    \/ \E in \in UpdateFolderInputsOver(CorruptCollectionIds, CorruptFolderIds) :
          UpdateFolder(in)
    \/ \E in \in FolderInputsOver(CorruptCollectionIds, CorruptFolderIds) : DeleteFolder(in)
    \/ \E in \in FolderInputsOver(CorruptCollectionIds, CorruptFolderIds) : GetFolder(in)
    \/ \E in \in CreateRequestInputsOver(CorruptCollectionIds, CorruptFolderIds) :
          nextId.req < CorruptRequests /\ CreateRequest(in)
    \/ \E in \in UpdateRequestInputsOver(CorruptCollectionIds, {}, CorruptRequestIds) :
          UpdateRequest(in)
    \/ \E in \in RequestInputsOver(CorruptCollectionIds, CorruptRequestIds) :
          DeleteRequest(in)
    \/ \E in \in RequestInputsOver(CorruptCollectionIds, CorruptRequestIds) : GetRequest(in)
    \/ \E in \in [collectionId : CorruptCollectionIds] : GetCollection(in)
    \/ \E in \in [collectionId : CorruptCollectionIds] : GetEnvironment(in)
    \/ \E in \in [collectionId : CorruptCollectionIds, key : {"token"}, value : {"abc"}] :
          SetEnvironmentVariable(in)
    \/ ListCollections
    \/ EnsureSampleData
    \/ WriteFile
    \/ Return

SpecCorrupt == Init /\ [][NextCorrupt]_vars

\* the files the call c has read by the time it ends, or would have read had
\* it not thrown before
ReadsOf(c) ==
    LET workspaces == readWorkspaceRecords(c.pre.ws)
        AllFour == {"ws", "fld", "req", "env"}
    IN CASE c.op = "createCollection" -> {"ws", "env"}
         [] c.op \in {"createFolder", "updateFolder", "getFolder"} -> {"ws", "fld"}
         [] c.op \in {"deleteFolder", "createRequest", "updateRequest", "deleteRequest",
                      "getRequest"} -> {"ws", "fld", "req"}
         [] c.op \in {"getEnvironment", "setEnvironmentVariable"} -> {"ws", "env"}
         [] c.op = "getCollection" ->
               IF \E w \in Recs(workspaces) :
                     w._id = c.in.collectionId /\ w.scope = COLLECTION_SCOPE
               THEN AllFour ELSE {"ws"}
         [] c.op = "listCollections" -> IF Len(workspaces) > 0 THEN AllFour ELSE {"ws"}
         [] c.op = "ensureSampleData" ->
               IF Len(workspaces) > 0 THEN {"ws", "env"} ELSE {"ws"}
         [] OTHER -> {}

\* C12: a call that reads a file holding a line that is not JSON ends in an
\* error, and every file is as it was when the call started.
C12_MalformedLineIsFatal ==
    (cur.pc = "done" /\ \E f \in ReadsOf(cur) : parseFails(cur.pre[f])) =>
        /\ cur.err # "none"
        /\ Files = cur.pre

\* the same, createCollection apart
C12_ButCreateCollection ==
    cur.op # "createCollection" => C12_MalformedLineIsFatal

----------------------------------------------------------------------------
(* SpecShared: a data file may also hold records of a type other than the  *)
(* one the program keeps in it, written there from outside the program.    *)

\* the type discriminant the typed read of a file keeps
Kind(f) ==
    CASE f = "ws" -> "Workspace" [] f = "fld" -> "RequestGroup"
      [] f = "req" -> "Request" [] f = "env" -> "Environment"

OtherRecord == [_id |-> "other_1", type |-> "Other", parentId |-> "proj_1",
                modified |-> 0, created |-> 0, name |-> "Not ours"]

ForeignCount == Cardinality({<<f, i>> \in FileNames \X (1..8) :
                                i <= Len(OnDisk(f)) /\ OnDisk(f)[i].type # Kind(f)})

\* a record of another type is appended to file f while no call is in progress
Foreign(f) ==
    /\ cur.pc = "idle"
    /\ ForeignCount < MaxForeign
    /\ wsFile' = IF f = "ws" THEN Append(wsFile, OtherRecord) ELSE wsFile
    /\ fldFile' = IF f = "fld" THEN Append(fldFile, OtherRecord) ELSE fldFile
    /\ reqFile' = IF f = "req" THEN Append(reqFile, OtherRecord) ELSE reqFile
    /\ envFile' = IF f = "env" THEN Append(envFile, OtherRecord) ELSE envFile
    /\ UNCHANGED <<now, nextId, cur, pending, failures, aside>>

SharedCollectionIds == {createId("wrk", i) : i \in 1..SharedCollections}
SharedFolderIds == {createId("fld", i) : i \in 1..SharedFolders}
SharedRequestIds == {createId("req", i) : i \in 1..SharedRequests}

NextShared ==
    \/ \E f \in FileNames : Foreign(f)
    \/ \E in \in CreateCollectionInputs :
          nextId.wrk < SharedCollections /\ CreateCollection(in)
    \/ \E in \in CreateFolderInputsOver(SharedCollectionIds, SharedFolderIds) :
          nextId.fld < SharedFolders /\ CreateFolder(in)
    \/ \E in \in FolderInputsOver(SharedCollectionIds, SharedFolderIds) : DeleteFolder(in)
    \/ \E in \in CreateRequestInputsOver(SharedCollectionIds, SharedFolderIds) :
          nextId.req < SharedRequests /\ CreateRequest(in)
    \/ \E in \in RequestInputsOver(SharedCollectionIds, SharedRequestIds) :
          DeleteRequest(in)
    \/ \E in \in [collectionId : SharedCollectionIds, key : {"token"}, value : {"abc"}] :
          SetEnvironmentVariable(in)
    \/ WriteFile
    \/ Return

SpecShared == Init /\ [][NextShared]_vars

\* C13: whatever an operation has written so far, each record that a file
\* held when the call started and whose type is not the file's kind is still
\* in that file, unchanged.
C13_ForeignRecordsKept ==
    cur.pc \in {"writing", "done"} =>
        \A f \in FileNames :
           \A i \in 1..Len(cur.pre[f]) :
              cur.pre[f][i].type # Kind(f) =>
                 \E j \in 1..Len(OnDisk(f)) : OnDisk(f)[j] = cur.pre[f][i]

----------------------------------------------------------------------------
(* SpecBoot: the server starts (ensureSampleData) over a workspace file    *)
(* that Insomnia has filled with workspaces of its own, of scope           *)
(* 'collection' or 'design', none of them with an environment record.      *)

\* Insomnia adds a workspace while no call is in progress
Import(scope) ==
    /\ cur.pc = "idle"
    /\ nextId.wrk < BootWorkspaces
    /\ wsFile' = Append(wsFile,
                    [_id |-> createId("wrk", nextId.wrk + 1), type |-> "Workspace",
                     parentId |-> "proj_test", modified |-> now, created |-> now,
                     name |-> "Existing", description |-> "", scope |-> scope])
    /\ nextId' = [nextId EXCEPT !.wrk = @ + 1]
    /\ UNCHANGED <<fldFile, reqFile, envFile, now, cur, pending, failures, aside>>

NextBoot ==
    \/ \E scope \in {COLLECTION_SCOPE, "design"} : Import(scope)
    \/ \E in \in CreateCollectionInputs :
          nextId.wrk < BootWorkspaces /\ CreateCollection(in)
    \/ EnsureSampleData
    \/ WriteFile
    \/ Return

SpecBoot == Init /\ [][NextBoot]_vars

\* the environment records of `files` whose parent is workspace w
EnvironmentsOf(files, w) ==
    {i \in 1..Len(files.env) : files.env[i].parentId = w._id}

\* every collection-scoped workspace of `files` has exactly one environment
OnePerCollection(files) ==
    \A w \in Recs(files.ws) :
       w.scope = COLLECTION_SCOPE => Cardinality(EnvironmentsOf(files, w)) = 1

\* C14: ensureSampleData leaves every collection-scoped workspace with exactly
\* one environment and the others with none; run where every collection-scoped
\* workspace has its environment already (as after a first run), it performs
\* no file write and the environment file is as it was.
C14_EnsureSampleDataIdempotent ==
    cur.op = "ensureSampleData" =>
        /\ (cur.pc = "writing" \/ Files # cur.pre) => ~OnePerCollection(cur.pre)
        /\ (cur.pc = "done" /\ cur.err = "none") =>
              /\ OnePerCollection(Files)
              /\ \A w \in Recs(wsFile) :
                    w.scope # COLLECTION_SCOPE => EnvironmentsOf(Files, w) = {}

\* a run that found nothing to do, over a collection given its environment by
\* an earlier run and a workspace of another scope
C14_Witness ==
    /\ Succeeded("ensureSampleData")
    /\ Files = cur.pre
    /\ \E w \in Recs(wsFile) : w.scope = "design"
    /\ \E w \in Recs(wsFile) :
          /\ w.scope = COLLECTION_SCOPE
          /\ w.name = "Existing"
          /\ Cardinality(EnvironmentsOf(Files, w)) = 1

----------------------------------------------------------------------------
(* SpecCodec: writeNdjsonRecords then readNdjsonRecords on one file.       *)
(* The file's text is held as the lines that split(/\r?\n/) finds in it:   *)
(* the empty text is one empty line, and a text that ends in a newline     *)
(* ends in an empty line.                                                  *)

\* JSON.stringify(record): one line of JSON text, no white space around it;
\* JSON.parse gives the record back (a property whose value is undefined is
\* not written, and reads back as absent, that is undefined)
JsonLine(record) == [kind |-> "json", value |-> <<record>>]
EmptyLine == [kind |-> "empty", value |-> <<>>]

\* records.map(JSON.stringify).join("\n"), plus "\n" unless empty
writeNdjsonRecords(records) ==
    IF Len(records) = 0 THEN <<EmptyLine>>
    ELSE [i \in 1..Len(records) |-> JsonLine(records[i])] \o <<EmptyLine>>

\* a reader that hands every line to JSON.parse, the empty ones too
readNdjsonRecordsUnfiltered(lines) ==
    IF \E i \in 1..Len(lines) : lines[i].kind # "json"
    THEN [err |-> "Parse", records |-> <<>>]
    ELSE [err |-> "none", records |-> [i \in 1..Len(lines) |-> lines[i].value[1]]]

\* split, trim, drop the empty lines, JSON.parse the others: [err, records]
readNdjsonRecords(lines) ==
    LET nonEmpty == SelectSeq(lines, LAMBDA l : l.kind # "empty")
    IN IF \E i \in 1..Len(nonEmpty) : nonEmpty[i].kind # "json"
       THEN [err |-> "Parse", records |-> <<>>]
       ELSE [err |-> "none",
             records |-> [i \in 1..Len(nonEmpty) |-> nonEmpty[i].value[1]]]

\* records as the codec test writes them; two share an id, one has no data
CodecRecords ==
    {[_id |-> "test1", type |-> "Test", data |-> "value1"],
     [_id |-> "test1", type |-> "Test", data |-> "value2"],
     [_id |-> "test2", type |-> "Test", data |-> " padded "],
     [_id |-> "test3", type |-> "Other", data |-> Undefined]}

CodecLists == UNION {[1..n -> CodecRecords] : n \in 0..MaxLen}

InitCodec ==
    /\ wsFile = <<>> /\ fldFile = <<>> /\ reqFile = <<>> /\ envFile = <<>>
    /\ now = 0
    /\ nextId = [wrk |-> 0, fld |-> 0, req |-> 0, env |-> 0]
    /\ \E records \in CodecLists : cur = [Idle EXCEPT !.op = "codec", !.in = records]
    /\ pending = <<>>
    /\ failures = 0
    /\ procs = [p \in 1..2 |-> [cur |-> Idle, pending |-> <<>>]]
    /\ lastWriter = [ws |-> 0, fld |-> 0, req |-> 0, env |-> 0]
    /\ notified = <<>>
    /\ walk = NoWalk
    /\ plugin = NoPlugin
    /\ text = <<>>

CodecWrite ==
    /\ cur.op = "codec" /\ cur.pc = "idle"
    /\ text' = writeNdjsonRecords(cur.in)
    /\ cur' = [cur EXCEPT !.pc = "writing"]
    /\ UNCHANGED <<wsFile, fldFile, reqFile, envFile, now, nextId, pending, failures,
                   procs, lastWriter, notified, walk, plugin>>

CodecRead ==
    /\ cur.op = "codec" /\ cur.pc = "writing"
    /\ LET r == readNdjsonRecords(text)
       IN cur' = [cur EXCEPT !.pc = "done", !.err = r.err, !.result = Some(r.records)]
    /\ UNCHANGED <<wsFile, fldFile, reqFile, envFile, now, nextId, pending, failures,
                   procs, lastWriter, text, notified, walk, plugin>>

NextCodec == CodecWrite \/ CodecRead

SpecCodec == InitCodec /\ [][NextCodec]_vars

----------------------------------------------------------------------------
(* The create-collection / create-folder / create-request workflow, under  *)
(* Spec, where every createRequest is given the method "post".             *)

\* the folders and the requests of the store that collection c owns
OwnedFolders(files, c) == {f \in Recs(files.fld) : Owner(files, f._id) = c}
OwnedRequests(files, c) == {r \in Recs(files.req) : RequestOwner(files, r._id) = c}

\* the store as createCollection, createFolder under the collection and
\* createRequest under that folder leave it for collection c
Workflow(files, c) ==
    /\ Cardinality(OwnedFolders(files, c)) = 1
    /\ Cardinality(OwnedRequests(files, c)) = 1
    /\ \A f \in OwnedFolders(files, c) : f.parentId = c
    /\ \A r \in OwnedRequests(files, c) : r.parentId \in Ids(files.fld)

\* C16: getCollection on a collection holding one folder and, in that folder,
\* one request created with method "post" returns exactly that folder and
\* that request, the request with the folder's id as folderId and with method
\* "POST", and an environment whose variable map is empty.
C16_WorkflowRoundTrip ==
    (Succeeded("getCollection") /\ Len(cur.result) > 0
        /\ Workflow(cur.pre, cur.in.collectionId)) =>
        LET collection == cur.result[1]
            f == CHOOSE f \in OwnedFolders(cur.pre, cur.in.collectionId) : TRUE
            r == CHOOSE r \in OwnedRequests(cur.pre, cur.in.collectionId) : TRUE
        IN /\ collection.id = cur.in.collectionId
           /\ Len(collection.folders) = 1
           /\ collection.folders[1].id = f._id
           /\ collection.folders[1].name = "Auth"
           /\ Len(collection.requests) = 1
           /\ collection.requests[1].id = r._id
           /\ collection.requests[1].name = "Login"
           /\ collection.requests[1].folderId = f._id
           /\ collection.requests[1].method = "POST"
           /\ collection.environment.name = DEFAULT_ENVIRONMENT_NAME
           /\ DOMAIN collection.environment.variables = {}

\* getCollection has returned the collection of the workflow
C16_Witness ==
    /\ Succeeded("getCollection") /\ Len(cur.result) > 0
    /\ Workflow(cur.pre, cur.in.collectionId)
    /\ Len(cur.result[1].requests) = 1
    /\ cur.result[1].requests[1].folderId = "fld_1"

----------------------------------------------------------------------------
(* SpecEnv: the environment variables of the collections.                  *)

EnvCollectionIds == {createId("wrk", i) : i \in 1..EnvCollections}
VariableKeys == {"baseUrl", "token"}
VariableValues == {"https://api.example.com", "abc"}

NextEnv ==
    \/ \E in \in CreateCollectionInputs :
          nextId.wrk < EnvCollections /\ CreateCollection(in)
    \/ \E in \in [collectionId : EnvCollectionIds, key : VariableKeys,
                  value : VariableValues] : SetEnvironmentVariable(in)
    \/ \E in \in [collectionId : EnvCollectionIds] : GetEnvironment(in)
    \/ \E in \in [collectionId : EnvCollectionIds, key : VariableKeys] :
          GetEnvironmentVariable(in)
    \/ WriteFile
    \/ Return

SpecEnv == Init /\ [][NextEnv]_vars

\* the data object of the environment record of collection c in `files`
DataOf(files, c) == (CHOOSE e \in Recs(files.env) : e.parentId = c).data

HasEnvironment(files, c) ==
    c \in Ids(files.ws) /\ \E e \in Recs(files.env) : e.parentId = c

\* C17: setEnvironmentVariable(C, k, v) leaves C's variable map with k bound
\* to v and every other key as it was, other collections' maps untouched, and
\* returns that map; getEnvironment(C) returns the stored map and
\* getEnvironmentVariable(C, k) the stored value of k, or undefined, without
\* an error, when k is not in the map.
C17_VariablesAreAMap ==
    LET c == cur.in.collectionId
    IN /\ Succeeded("setEnvironmentVariable") =>
             LET old == DataOf(cur.pre, c)
                 new == DataOf(Files, c)
             IN /\ DOMAIN new = DOMAIN old \cup {cur.in.key}
                /\ new[cur.in.key] = cur.in.value
                /\ \A k \in DOMAIN old \ {cur.in.key} : new[k] = old[k]
                /\ cur.result[1].variables = new
                /\ \A d \in Ids(wsFile) \ {c} : DataOf(Files, d) = DataOf(cur.pre, d)
       /\ Succeeded("getEnvironment") => cur.result[1].variables = DataOf(cur.pre, c)
       /\ (Done("getEnvironmentVariable") /\ HasEnvironment(cur.pre, c)) =>
             /\ cur.err = "none"
             /\ IF cur.in.key \in DOMAIN DataOf(cur.pre, c)
                THEN cur.result = Some(DataOf(cur.pre, c)[cur.in.key])
                ELSE cur.result = None

\* a key was overwritten in a map holding another key, while another
\* collection holds a different value for it
C17_Witness ==
    /\ Succeeded("setEnvironmentVariable")
    /\ cur.in.collectionId = "wrk_1"
    /\ cur.in.key = "token" /\ cur.in.value = "abc"
    /\ DOMAIN DataOf(cur.pre, "wrk_1") = VariableKeys
    /\ DataOf(cur.pre, "wrk_1")["token"] # "abc"
    /\ HasEnvironment(Files, "wrk_2")
    /\ "token" \in DOMAIN DataOf(Files, "wrk_2")
    /\ DataOf(Files, "wrk_2")["token"] # "abc"

\* getEnvironmentVariable has returned undefined for a key never set, in a
\* map that holds another key
C17_MissingKeyWitness ==
    /\ Succeeded("getEnvironmentVariable")
    /\ cur.result = None
    /\ DOMAIN DataOf(cur.pre, cur.in.collectionId) = {"baseUrl"}

----------------------------------------------------------------------------
(* SpecLazy: getEnvironment over collections some of which have no         *)
(* environment record (workspaces Insomnia added).                         *)

BootCollectionIds == {createId("wrk", i) : i \in 1..BootWorkspaces}

NextLazy ==
    \/ NextBoot
    \/ \E in \in [collectionId : BootCollectionIds] : GetEnvironment(in)

SpecLazy == Init /\ [][NextLazy]_vars

\* C18: getEnvironment on an existing collection succeeds; where the
\* collection had no environment record, one with an empty variable map is on
\* file afterwards and is the one returned; where it had one, that one is
\* returned (so a later call returns the same id).
C18_GetEnvironmentLazilyCreates ==
    LET c == cur.in.collectionId
    IN (Done("getEnvironment") /\ c \in Ids(cur.pre.ws)) =>
          /\ cur.err = "none"
          /\ Cardinality({i \in 1..Len(envFile) : envFile[i].parentId = c}) = 1
          /\ \E e \in Recs(envFile) :
                /\ e.parentId = c
                /\ e._id = cur.result[1].id
                /\ cur.result[1].variables = e.data
                /\ (~HasEnvironment(cur.pre, c) => DOMAIN e.data = {})
                /\ (HasEnvironment(cur.pre, c) => e \in Recs(cur.pre.env))

----------------------------------------------------------------------------
(* The error objects the operations throw, as the caller receives them.    *)

\* the object behind each way an operation ends in an error: `new Error(msg)`
\* for every check of the storage layer, the SyntaxError of JSON.parse, and
\* the error of fs.writeFile / fs.mkdir, which carries an errno code
ErrorThrown(err) ==
    CASE err = "CollectionNotFound" ->
            [name |-> "Error", code |-> Undefined, message |-> "Collection ... not found"]
      [] err = "FolderNotFound" ->
            [name |-> "Error", code |-> Undefined, message |-> "Folder ... not found"]
      [] err = "FolderNotInCollection" ->
            [name |-> "Error", code |-> Undefined,
             message |-> "Folder ... does not belong to collection ..."]
      [] err = "RequestNotFound" ->
            [name |-> "Error", code |-> Undefined, message |-> "Request ... not found"]
      [] err = "EnvironmentNotFound" ->
            [name |-> "Error", code |-> Undefined,
             message |-> "Environment for collection ... not found"]
      [] err = "FolderCycle" ->
            [name |-> "Error", code |-> Undefined,
             message |-> "Cannot move a folder into itself or its descendants"]
      [] err = "Parse" ->
            [name |-> "SyntaxError", code |-> Undefined, message |-> "Unexpected token ..."]
      [] err = "IO" ->
            [name |-> "Error", code |-> "EACCES", message |-> "EACCES: permission denied ..."]

\* the kind a caller can read off an error object without parsing its
\* message: its code if it has one, else its class name
KindOf(e) == IF e.code # Undefined THEN e.code ELSE e.name

\* the kinds of the error classes the repository declares
NotFoundCodes == {"COLLECTION_NOT_FOUND", "FOLDER_NOT_FOUND", "REQUEST_NOT_FOUND",
                  "ENVIRONMENT_NOT_FOUND"}
SystemFailureCodes == {"FILE_SYSTEM_ERROR"}

\* C19: an operation that ends on a missing or foreign collection, folder or
\* request throws an error of a not-found kind, a rejected folder move one of
\* a kind of its own, a failed file write one of a system-failure kind, no
\* two of these sets of kinds sharing a kind.
C19_ErrorsTypedByKind ==
    (cur.pc = "done" /\ cur.err # "none") =>
        LET kind == KindOf(ErrorThrown(cur.err))
        IN /\ cur.err \in NotFoundKinds => kind \in NotFoundCodes
           /\ cur.err = "FolderCycle" => kind \notin NotFoundCodes \cup SystemFailureCodes
                                         /\ kind # KindOf(ErrorThrown("CollectionNotFound"))
           /\ cur.err = "IO" => kind \in SystemFailureCodes

----------------------------------------------------------------------------
(* SpecTool: the create tools. A tool call is parsed against the tool's    *)
(* argument schema; the handler, which calls the storage operation, runs   *)
(* on arguments that pass. Data files may hold a line that is not JSON, so *)
(* a call that reads one is seen to have read it.                          *)

\* a string accepted whatever it is
StringAny(v) == TRUE

\* z.string().min(1, ...)
StringMin1(v) == v \notin {Undefined, Null, ""}

\* schema.optional().nullable()
OptionalNullable(v, ok) == v \in {Undefined, Null} \/ ok

\* new URL(value) does not throw, on the URLs of the model
isValidAbsoluteUrl(value) == value \in {"https://x/login"}

\* /\{\{[^}]+\}\}/.test(value), on the URLs of the model
containsTemplatePlaceholder(value) == value \in {"{{ base }}/login"}

requestUrlSchema(value) ==
    StringMin1(value) /\ (containsTemplatePlaceholder(value) \/ isValidAbsoluteUrl(value))

createCollectionArgs(args) == StringMin1(args.name)

createFolderArgs(args) ==
    /\ StringMin1(args.collectionId)
    /\ StringMin1(args.name)
    /\ OptionalNullable(args.parentId, StringMin1(args.parentId))

createRequestArgs(args) ==
    /\ StringMin1(args.collectionId)
    /\ OptionalNullable(args.folderId, StringMin1(args.folderId))
    /\ StringMin1(args.name)
    /\ StringMin1(args.method)
    /\ requestUrlSchema(args.url)

\* server.tool(name, description, schema, handler): arguments the schema
\* rejects end the call before the handler runs
Tool(op, args, valid, in, out) ==
    IF valid
    THEN Begin(op, in, out)
    ELSE /\ cur.pc = "idle"
         /\ cur' = [op |-> op, in |-> args, pc |-> "done", err |-> "Validation",
                    result |-> None, pre |-> Files, at |-> now, ts |-> now]
         /\ pending' = <<>>
         /\ UNCHANGED <<wsFile, fldFile, reqFile, envFile, now, nextId, failures, aside>>

ToolCreateCollection(args) ==
    LET in == [name |-> args.name, description |-> args.description]
    IN Tool("createCollection", args, createCollectionArgs(args), in, createCollection(in))

ToolCreateFolder(args) ==
    LET in == [args EXCEPT !.parentId = NullishToUndefined(args.parentId)]
    IN Tool("createFolder", args, createFolderArgs(args), in, createFolder(in))

ToolCreateRequest(args) ==
    LET in == [args EXCEPT !.folderId = NullishToUndefined(args.folderId)]
    IN Tool("createRequest", args, createRequestArgs(args), in, createRequest(in))

ToolCollectionIds == {createId("wrk", i) : i \in 1..ToolCollections}
ToolFolderIds == {createId("fld", i) : i \in 1..ToolFolders}

ToolCreateCollectionArgs == [name : {"", "API"}, description : {Undefined}]
ToolCreateFolderArgs ==
    [collectionId : ToolCollectionIds \cup {""}, name : {"", "Auth"},
     description : {Undefined}, parentId : {Undefined, Null} \cup ToolFolderIds]
ToolCreateRequestArgs ==
    [collectionId : ToolCollectionIds, name : {"", "Login"}, method : {"", "post"},
     url : {"", "login", "{{ base }}/login", "https://x/login"},
     headers : {Undefined}, body : {Undefined}, description : {Undefined},
     folderId : {Undefined, Null} \cup ToolFolderIds,
     preRequestScript : {Undefined}, afterResponseScript : {Undefined}]

NextTool ==
    \/ \E f \in FileNames : Scribble(f)
    \/ \E args \in ToolCreateCollectionArgs :
          nextId.wrk < ToolCollections /\ ToolCreateCollection(args)
    \/ \E args \in ToolCreateFolderArgs :
          nextId.fld < ToolFolders /\ ToolCreateFolder(args)
    \/ \E args \in ToolCreateRequestArgs :
          nextId.req < ToolRequests /\ ToolCreateRequest(args)
    \/ WriteFile
    \/ Return

SpecTool == Init /\ [][NextTool]_vars

C20_UnreadWitness ==
    /\ cur.pc = "done"
    /\ cur.op = "createRequest"
    /\ cur.in.name = ""
    /\ cur.err = "Validation"
    /\ parseFails(wsFile)

----------------------------------------------------------------------------
(* SpecParent: the four operations that take a parent, called with every   *)
(* kind of requested parent: none, null, the empty string, a collection,   *)
(* a folder of the collection, a folder of another collection.             *)

ParentCollectionIds == {createId("wrk", i) : i \in 1..ParentCollections}
ParentFolderIds == {createId("fld", i) : i \in 1..ParentFolders}
ParentRequestIds == {createId("req", i) : i \in 1..ParentRequests}
RequestedParents == {Undefined, Null, ""} \cup ParentCollectionIds \cup ParentFolderIds

NextParent ==
    \/ \E in \in CreateCollectionInputs :
          nextId.wrk < ParentCollections /\ CreateCollection(in)
    \/ \E in \in [collectionId : ParentCollectionIds, name : {"Auth"},
                  description : {Undefined}, parentId : RequestedParents] :
          nextId.fld < ParentFolders /\ CreateFolder(in)
    \/ \E in \in [collectionId : ParentCollectionIds, folderId : ParentFolderIds,
                  name : {Undefined}, description : {Undefined},
                  parentId : RequestedParents] : UpdateFolder(in)
    \/ \E c \in ParentCollectionIds, p \in RequestedParents :
          /\ nextId.req < ParentRequests
          /\ CreateRequest([collectionId |-> c, name |-> "Login", method |-> "post",
                            url |-> "https://x/login", headers |-> Undefined,
                            body |-> Undefined, description |-> Undefined, folderId |-> p,
                            preRequestScript |-> Undefined,
                            afterResponseScript |-> Undefined])
    \/ \E c \in ParentCollectionIds, r \in ParentRequestIds, p \in RequestedParents :
          UpdateRequest([NoRequestUpdate(c, r) EXCEPT !.folderId = p])
    \/ WriteFile
    \/ Return

SpecParent == Init /\ [][NextParent]_vars

FolderParentOps == {"createFolder", "updateFolder"}
RequestParentOps == {"createRequest", "updateRequest"}
UpdateOps == {"updateFolder", "updateRequest"}

\* the parent the call in flight asks for
Requested == IF cur.op \in FolderParentOps THEN cur.in.parentId ELSE cur.in.folderId

\* the call in flight is over, took a parent, named a collection that
\* exists and, for an update, an entity of that collection
ParentCallDone ==
    /\ cur.pc = "done"
    /\ cur.op \in FolderParentOps \cup RequestParentOps
    /\ cur.in.collectionId \in Ids(cur.pre.ws)
    /\ cur.op = "updateFolder" =>
          /\ cur.in.folderId \in Ids(cur.pre.fld)
          /\ Owner(cur.pre, cur.in.folderId) = cur.in.collectionId
    /\ cur.op = "updateRequest" =>
          /\ cur.in.requestId \in Ids(cur.pre.req)
          /\ RequestOwner(cur.pre, cur.in.requestId) = cur.in.collectionId

\* the parent the entity had before an update
ParentBefore ==
    IF cur.op = "updateFolder" THEN ParentOf(cur.pre.fld, cur.in.folderId)
    ELSE (CHOOSE r \in Recs(cur.pre.req) : r._id = cur.in.requestId).parentId

\* the parent on disk of the entity the call returned
ParentAfter ==
    LET file == IF cur.op \in FolderParentOps THEN fldFile ELSE reqFile
    IN (CHOOSE r \in Recs(file) : r._id = cur.result[1].id).parentId

\* a folder that exists and belongs to the collection of the call
OwnFolder(id) == id \in Ids(cur.pre.fld) /\ Owner(cur.pre, id) = cur.in.collectionId

\* the call went through with the entity under parent p, or was refused as
\* a folder move into the folder's own subtree, nothing written
LandsUnder(p) ==
    /\ cur.err \in {"none", "FolderCycle"}
    /\ cur.err = "none" => ParentAfter = p
    /\ cur.err = "FolderCycle" => cur.op = "updateFolder" /\ Files = cur.pre

RefusedParent ==
    /\ cur.err \in {"FolderNotFound", "FolderNotInCollection"}
    /\ Files = cur.pre

\* C21 as stated: in each of the four operations a requested parent that is
\* undefined, null or the workspace id makes the entity a direct child of
\* the workspace; any other requested parent is taken when it is a folder of
\* the workspace, and is refused with nothing persisted otherwise.
C21_ParentResolution ==
    ParentCallDone =>
        IF Requested \in {Undefined, Null, cur.in.collectionId}
        THEN cur.err = "none" /\ ParentAfter = cur.in.collectionId
        ELSE IF OwnFolder(Requested) THEN LandsUnder(Requested)
        ELSE RefusedParent

\* C21 amended: an update given no parent (undefined) leaves the entity
\* under the parent it had; otherwise a requested parent that is undefined,
\* null, the empty string or the workspace id makes the entity a direct
\* child of the workspace; any other requested parent is taken when it is a
\* folder of the workspace (a folder move into the folder's own subtree
\* apart, which is refused), and is refused with nothing persisted otherwise.
C21_ParentResolutionOrUnchanged ==
    ParentCallDone =>
        IF cur.op \in UpdateOps /\ Requested = Undefined
        THEN cur.err = "none" /\ ParentAfter = ParentBefore
        ELSE IF Requested \in {Undefined, Null, "", cur.in.collectionId}
        THEN cur.err = "none" /\ ParentAfter = cur.in.collectionId
        ELSE IF OwnFolder(Requested) THEN LandsUnder(Requested)
        ELSE RefusedParent

\* an update without a parent left a nested folder where it was
C21_Witness ==
    /\ ParentCallDone
    /\ cur.op = "updateFolder"
    /\ Requested = Undefined
    /\ cur.err = "none"
    /\ ParentAfter \in Ids(fldFile)

\* a request was refused a folder of another collection
C21_RefusedWitness ==
    /\ ParentCallDone
    /\ cur.op = "createRequest"
    /\ ForeignFolder(Requested)
    /\ RefusedParent

----------------------------------------------------------------------------
(* SpecScope: collections read back (getCollection, listCollections) from  *)
(* a store that also holds workspaces of another scope, put there by       *)
(* Insomnia, and folders and requests of several collections.              *)

ScopeWorkspaceIds == {createId("wrk", i) : i \in 1..ScopeWorkspaces}
ScopeParents == {Undefined, createId("fld", 1)}

NextScope ==
    \/ \E scope \in {COLLECTION_SCOPE, "design"} :
          nextId.wrk < ScopeWorkspaces /\ Import(scope)
    \/ \E in \in [collectionId : ScopeWorkspaceIds, name : {"Auth"},
                  description : {Undefined}, parentId : ScopeParents] :
          nextId.fld < ScopeFolders /\ CreateFolder(in)
    \/ \E c \in ScopeWorkspaceIds, p \in ScopeParents :
          /\ nextId.req < ScopeRequests
          /\ CreateRequest([collectionId |-> c, name |-> "Login", method |-> "post",
                            url |-> "https://x/login", headers |-> Undefined,
                            body |-> Undefined, description |-> Undefined, folderId |-> p,
                            preRequestScript |-> Undefined,
                            afterResponseScript |-> Undefined])
    \/ \E in \in [collectionId : ScopeWorkspaceIds] : GetCollection(in)
    \/ ListCollections
    \/ WriteFile
    \/ Return

SpecScope == Init /\ [][NextScope]_vars

\* the workspaces of scope 'collection', in file order
CollectionWorkspaces(files) == SelectSeq(files.ws, LAMBDA w : w.scope = COLLECTION_SCOPE)

\* C22: getCollection of an id that no workspace of scope 'collection'
\* carries, be it the id of no workspace or of a workspace of another scope,
\* returns undefined, throws nothing and writes no file.
C22_GetCollectionAbsent ==
    (/\ cur.op = "getCollection"
     /\ \A w \in Recs(CollectionWorkspaces(cur.pre)) : w._id # cur.in.collectionId)
    => /\ cur.pc = "done"
       /\ cur.err = "none"
       /\ cur.result = None
       /\ pending = <<>>
       /\ Files = cur.pre

\* the id asked for is that of a workspace of scope 'design'
C22_Witness ==
    /\ Done("getCollection")
    /\ cur.result = None
    /\ \E w \in Recs(cur.pre.ws) : w._id = cur.in.collectionId /\ w.scope = "design"

\* the ids of a sequence of records or of returned entities, in order
RecordIds(records) == [i \in 1..Len(records) |-> records[i]._id]
EntityIds(entities) == [i \in 1..Len(entities) |-> entities[i].id]

\* C23: listCollections returns one entry for each workspace of scope
\* 'collection', in the order of the workspace file, and none for another
\* scope; an entry's folders are the folders of the folder file whose parent
\* chain ends in that workspace, in file order, and its requests are the
\* requests of the request file owned by it, in file order.
C23_ListCollectionsExact ==
    Succeeded("listCollections") =>
        LET ws == CollectionWorkspaces(cur.pre)
            listed == cur.result[1]
        IN /\ EntityIds(listed) = RecordIds(ws)
           /\ \A i \in 1..Len(listed) :
                 /\ EntityIds(listed[i].folders) =
                       RecordIds(SelectSeq(cur.pre.fld,
                           LAMBDA f : Owner(cur.pre, f._id) = ws[i]._id))
                 /\ EntityIds(listed[i].requests) =
                       RecordIds(SelectSeq(cur.pre.req,
                           LAMBDA r : RequestOwner(cur.pre, r._id) = ws[i]._id))

\* two collections listed around a workspace of another scope, each with a
\* folder of its own, one of them with two requests
C23_Witness ==
    /\ Succeeded("listCollections")
    /\ Len(cur.result[1]) = 2
    /\ Len(cur.pre.ws) = 3
    /\ cur.pre.ws[2].scope = "design"
    /\ \E i \in 1..2 : Len(cur.result[1][i].requests) = 2
    /\ \E i \in 1..2 : Len(cur.result[1][i].folders) = 1
    /\ Len(cur.pre.fld) = 2

----------------------------------------------------------------------------
(* SpecEvery: every operation of the storage layer, one call at a time,    *)
(* over workspaces the program created or Insomnia put there.              *)

EveryWorkspaceIds == {createId("wrk", i) : i \in 1..EveryWorkspaces}
EveryFolderIds == {createId("fld", i) : i \in 1..EveryFolders}
EveryRequestIds == {createId("req", i) : i \in 1..EveryRequests}
EveryVariableInputs ==
    [collectionId : EveryWorkspaceIds, key : {"token"}, value : {"abc"}]

NextEvery ==
    \/ \E scope \in {COLLECTION_SCOPE, "design"} :
          nextId.wrk < EveryWorkspaces /\ Import(scope)
    \/ \E in \in CreateCollectionInputs :
          nextId.wrk < EveryWorkspaces /\ CreateCollection(in)
    \/ \E in \in CreateFolderInputsOver(EveryWorkspaceIds, {}) :
          nextId.fld < EveryFolders /\ CreateFolder(in)
    \/ \E in \in UpdateFolderInputsOver(EveryWorkspaceIds, EveryFolderIds) :
          UpdateFolder(in)
    \/ \E in \in FolderInputsOver(EveryWorkspaceIds, EveryFolderIds) : DeleteFolder(in)
    \/ \E in \in FolderInputsOver(EveryWorkspaceIds, EveryFolderIds) : GetFolder(in)
    \/ \E in \in CreateRequestInputsOver(EveryWorkspaceIds, EveryFolderIds) :
          nextId.req < EveryRequests /\ CreateRequest(in)
    \/ \E in \in UpdateRequestInputsOver(EveryWorkspaceIds, EveryFolderIds,
                                         EveryRequestIds) : UpdateRequest(in)
    \/ \E in \in RequestInputsOver(EveryWorkspaceIds, EveryRequestIds) : DeleteRequest(in)
    \/ \E in \in RequestInputsOver(EveryWorkspaceIds, EveryRequestIds) : GetRequest(in)
    \/ \E in \in [collectionId : EveryWorkspaceIds] : GetCollection(in)
    \/ ListCollections
    \/ EnsureSampleData
    \/ \E in \in [collectionId : EveryWorkspaceIds] : GetEnvironment(in)
    \/ \E in \in EveryVariableInputs : SetEnvironmentVariable(in)
    \/ \E in \in [collectionId : EveryWorkspaceIds, key : {"token"}] :
          GetEnvironmentVariable(in)
    \/ WriteFile
    \/ Return

SpecEvery == Init /\ [][NextEvery]_vars

\* C24: no step of any operation takes a workspace id out of the workspace
\* file or an environment id out of the environment file, and no step
\* changes the parentId of an environment that stays.
C24_NeverRemoved ==
    [][/\ Ids(wsFile) \subseteq Ids(wsFile')
       /\ Ids(envFile) \subseteq Ids(envFile')
       /\ \A e \in Recs(envFile) : \A f \in Recs(envFile') :
             f._id = e._id => f.parentId = e.parentId]_vars

\* a folder and its request were deleted from a collection whose environment
\* has a variable set, next to a second workspace with an environment
C24_Witness ==
    /\ Succeeded("deleteFolder")
    /\ Len(cur.pre.req) = 1 /\ Len(reqFile) = 0
    /\ Len(wsFile) = 2
    /\ Len(envFile) = 2
    /\ \E e \in Recs(envFile) :
          e.parentId = cur.in.collectionId /\ DataOf(Files, cur.in.collectionId) # <<>>

----------------------------------------------------------------------------
(* SpecTorn: fs.writeFile(path, content) as the system calls it is made    *)
(* of, next to a readNdjsonRecords of the same file by another caller.     *)
(* fs.writeFile opens the file with flag 'w', which empties it, writes the *)
(* content with as many write calls as the system takes to accept it, and  *)
(* closes the file. Caller 1 writes, caller 2 reads.                       *)

\* the beginning of a line of JSON, cut where a write call ended
TornLine == [kind |-> "torn", value |-> <<>>]

TornRecords == {[_id |-> "test1", type |-> "Test", data |-> "value1"],
                [_id |-> "test2", type |-> "Test", data |-> "value2"]}
TornLists == UNION {[1..n -> TornRecords] : n \in 0..TornLen}

InitTorn ==
    /\ wsFile = <<>> /\ fldFile = <<>> /\ reqFile = <<>> /\ envFile = <<>>
    /\ now = 0
    /\ nextId = [wrk |-> 0, fld |-> 0, req |-> 0, env |-> 0]
    /\ cur = Idle
    /\ pending = <<>>
    /\ failures = 0
    /\ lastWriter = [ws |-> 0, fld |-> 0, req |-> 0, env |-> 0]
    /\ notified = <<>>
    /\ walk = NoWalk
    /\ plugin = NoPlugin
    /\ \E old \in TornLists, new \in TornLists :
          /\ text = writeNdjsonRecords(old)
          /\ procs = [p \in 1..2 |->
                        [cur |-> [Idle EXCEPT !.op = IF p = 1 THEN "writeNdjsonRecords"
                                                     ELSE "readNdjsonRecords",
                                              !.in = new, !.pre = old],
                         pending |-> <<>>]]

TornUnchanged ==
    UNCHANGED <<wsFile, fldFile, reqFile, envFile, now, nextId, cur, pending, failures,
                lastWriter, notified, walk, plugin>>

\* open(path, 'w'): O_TRUNC leaves the file empty
FsOpenTruncate ==
    /\ procs[1].cur.pc = "idle"
    /\ text' = <<EmptyLine>>
    /\ procs' = [procs EXCEPT ![1].cur.pc = "writing"]
    /\ TornUnchanged

\* a write call that the system accepts in part: the first n lines, whole,
\* or the first n lines and the beginning of the next
FsWritePart ==
    /\ procs[1].cur.pc = "writing"
    /\ text = <<EmptyLine>>
    /\ \E n \in 0..(Len(procs[1].cur.in) - 1), tail \in {EmptyLine, TornLine} :
          /\ n > 0 \/ tail = TornLine
          /\ text' = [i \in 1..n |-> JsonLine(procs[1].cur.in[i])] \o <<tail>>
    /\ UNCHANGED procs
    /\ TornUnchanged

\* the write call after which the whole content is in the file
FsWriteRest ==
    /\ procs[1].cur.pc = "writing"
    /\ text' = writeNdjsonRecords(procs[1].cur.in)
    /\ procs' = [procs EXCEPT ![1].cur.pc = "done"]
    /\ TornUnchanged

\* readNdjsonRecords by the other caller, whenever it comes
FsReadFile ==
    /\ procs[2].cur.pc = "idle"
    /\ LET r == readNdjsonRecords(text)
       IN procs' = [procs EXCEPT ![2].cur.pc = "done", ![2].cur.err = r.err,
                                 ![2].cur.result = Some(r.records),
                                 ![2].cur.at = IF procs[1].cur.pc = "writing" THEN 1 ELSE 0]
    /\ UNCHANGED text
    /\ TornUnchanged

NextTorn == FsOpenTruncate \/ FsWritePart \/ FsWriteRest \/ FsReadFile

SpecTorn == InitTorn /\ [][NextTorn]_vars

\* C25: a read of a file, made while a write of that file is under way or
\* at any other time, returns without error either the list of records the
\* file held before the write or the list the write puts there.
C25_WriteIsAtomic ==
    (procs[2].cur.op = "readNdjsonRecords" /\ procs[2].cur.pc = "done") =>
        /\ procs[2].cur.err = "none"
        /\ procs[2].cur.result[1] \in {procs[2].cur.pre, procs[2].cur.in}

----------------------------------------------------------------------------
(* SpecNotify: the mutating tools. A handler awaits the storage operation  *)
(* and then sends its notifications; an operation that throws ends the     *)
(* handler where it is. File writes may fail.                              *)

\* z.string().optional()
StringOptional(v) == v # Null

updateFolderArgs(args) ==
    /\ StringMin1(args.collectionId)
    /\ StringMin1(args.folderId)
    /\ StringOptional(args.name)
    /\ OptionalNullable(args.parentId, StringMin1(args.parentId))

deleteFolderArgs(args) == StringMin1(args.collectionId) /\ StringMin1(args.folderId)

updateRequestArgs(args) ==
    /\ StringMin1(args.collectionId)
    /\ StringMin1(args.requestId)
    /\ StringOptional(args.name)
    /\ StringOptional(args.method)
    /\ args.url = Undefined \/ requestUrlSchema(args.url)
    /\ OptionalNullable(args.folderId, StringMin1(args.folderId))

deleteRequestArgs(args) == StringMin1(args.collectionId) /\ StringMin1(args.requestId)

setEnvironmentArgs(args) == StringMin1(args.collectionId) /\ StringMin1(args.key)

ToolUpdateFolder(args) ==
    LET in == [args EXCEPT !.description = NullishToUndefined(args.description),
                           !.parentId = NullishToUndefined(args.parentId)]
    IN Tool("updateFolder", args, updateFolderArgs(args), in, updateFolder(in))

ToolDeleteFolder(args) ==
    Tool("deleteFolder", args, deleteFolderArgs(args), args, deleteFolder(args))

ToolUpdateRequest(args) ==
    LET in == [args EXCEPT !.description = NullishToUndefined(args.description),
                           !.folderId = NullishToUndefined(args.folderId)]
    IN Tool("updateRequest", args, updateRequestArgs(args), in, updateRequest(in))

ToolDeleteRequest(args) ==
    Tool("deleteRequest", args, deleteRequestArgs(args), args, deleteRequest(args))

ToolSetEnvironmentVariable(args) ==
    Tool("setEnvironmentVariable", args, setEnvironmentArgs(args), args,
         setEnvironmentVariable(args))

MutatingOps == {"createCollection", "createFolder", "updateFolder", "deleteFolder",
                "createRequest", "updateRequest", "deleteRequest",
                "setEnvironmentVariable"}

\* what the handler of the call c sends once the storage call has returned
NotificationsOf(c) ==
    CASE c.op = "createCollection" ->
            <<[method |-> "resources/list_changed", uri |-> Undefined, id |-> Undefined],
              [method |-> "resources/updated", uri |-> "insomnia://collections",
               id |-> Undefined]>>
      [] c.op = "setEnvironmentVariable" ->
            <<[method |-> "resources/updated",
               uri |-> "insomnia://collection/${collectionId}/environment",
               id |-> c.in.collectionId]>>
      [] OTHER ->
            <<[method |-> "resources/updated", uri |-> "insomnia://collection/${collectionId}",
               id |-> c.in.collectionId]>>

\* the handler gets past its `await` whatever the storage call did
AwaitedOrThrown(c) == c.pc = "done"

\* the handler gets past its `await op(...)`: the storage call returned
Awaited(c) == c.pc = "done" /\ c.err = "none"

SendNotifications ==
    /\ cur.op \in MutatingOps
    /\ Awaited(cur)
    /\ notified' = notified \o NotificationsOf(cur)
    /\ cur' = [cur EXCEPT !.pc = "notified"]
    /\ UNCHANGED <<wsFile, fldFile, reqFile, envFile, now, nextId, pending, failures,
                   procs, lastWriter, text, walk, plugin>>

\* the handler returns its text, or the call fails with what was thrown
ToolReturn ==
    /\ \/ cur.pc = "notified"
       \/ cur.pc = "done" /\ ~(cur.op \in MutatingOps /\ Awaited(cur))
    /\ cur' = Idle
    /\ UNCHANGED <<wsFile, fldFile, reqFile, envFile, now, nextId, pending, failures, aside>>

NotifyCollectionIds == {createId("wrk", i) : i \in 1..NotifyCollections}
NotifyFolderIds == {createId("fld", i) : i \in 1..NotifyFolders}
NotifyRequestIds == {createId("req", i) : i \in 1..NotifyRequests}

NextNotify ==
    \/ \E args \in ToolCreateCollectionArgs :
          /\ Len(notified) < MaxNotified /\ nextId.wrk < NotifyCollections
          /\ ToolCreateCollection(args)
    \/ \E args \in [collectionId : NotifyCollectionIds, name : {"", "Auth"},
                    description : {Undefined}, parentId : {Undefined}] :
          /\ Len(notified) < MaxNotified /\ nextId.fld < NotifyFolders
          /\ ToolCreateFolder(args)
    \/ \E args \in [collectionId : NotifyCollectionIds, folderId : NotifyFolderIds,
                    name : {Undefined, "new"}, description : {Undefined},
                    parentId : {Undefined, Null} \cup NotifyFolderIds] :
          Len(notified) < MaxNotified /\ ToolUpdateFolder(args)
    \/ \E args \in [collectionId : NotifyCollectionIds, folderId : NotifyFolderIds] :
          Len(notified) < MaxNotified /\ ToolDeleteFolder(args)
    \/ \E args \in CreateRequestInputsOver(NotifyCollectionIds, NotifyFolderIds) :
          /\ Len(notified) < MaxNotified /\ nextId.req < NotifyRequests
          /\ ToolCreateRequest(args)
    \/ \E c \in NotifyCollectionIds, r \in NotifyRequestIds, n \in {Undefined, "new"} :
          /\ Len(notified) < MaxNotified
          /\ ToolUpdateRequest([NoRequestUpdate(c, r) EXCEPT !.name = n])
    \/ \E args \in [collectionId : NotifyCollectionIds, requestId : NotifyRequestIds] :
          Len(notified) < MaxNotified /\ ToolDeleteRequest(args)
    \/ \E args \in [collectionId : NotifyCollectionIds, key : {"", "token"},
                    value : {"abc"}] :
          Len(notified) < MaxNotified /\ ToolSetEnvironmentVariable(args)
    \/ WriteFile
    \/ failures < MaxWriteFailures /\ WriteFileFails
    \/ SendNotifications
    \/ ToolReturn

SpecNotify == Init /\ [][NextNotify]_vars

\* C26: a notification goes out only in a step of a mutating tool whose
\* storage call has returned without error, every file write of it done,
\* and it is the tool's own notification; a mutating tool call ends having
\* sent it exactly when its storage call did not throw.
C26_NotifyAfterSuccess ==
    [][/\ notified' # notified =>
             /\ cur.op \in MutatingOps
             /\ cur.pc = "done" /\ cur.err = "none" /\ pending = <<>>
             /\ notified' = notified \o NotificationsOf(cur)
       /\ (cur.op \in MutatingOps /\ cur'.pc = "idle" /\ cur.pc # "idle") =>
             (cur.pc = "notified" <=> cur.err = "none")]_vars

\* delete_folder has notified the client, after the notifications of the
\* calls that made the collection and the folder
C26_Witness ==
    /\ cur.op = "deleteFolder"
    /\ cur.pc = "notified"
    /\ Len(notified) = 4
    /\ notified[4].id = cur.in.collectionId
    /\ Len(fldFile) = 0

\* delete_folder has failed on a write after its first, the folder file
\* rewritten, and has sent nothing
C26_FailedWitness ==
    /\ cur.op = "deleteFolder"
    /\ cur.pc = "done"
    /\ cur.err = "IO"
    /\ Files # cur.pre
    /\ Len(notified) = 3

----------------------------------------------------------------------------
(* SpecTree: the functions of folderTree.ts applied to folder files of any *)
(* shape: parents that are a workspace, another folder, the folder itself, *)
(* an id that nothing carries, the empty string; chains that run in a      *)
(* circle.                                                                 *)

TreeWorkspaceIds == {createId("wrk", i) : i \in 1..TreeWorkspaces}
TreeFolderIds == {createId("fld", i) : i \in 1..TreeFolders}
TreeParents == TreeWorkspaceIds \cup TreeFolderIds \cup {"fld_gone", ""}

TreeFolder(i, parentId) ==
    [_id |-> createId("fld", i), type |-> "RequestGroup", parentId |-> parentId,
     modified |-> 0, created |-> 0, name |-> "Auth", metaSortKey |-> 0,
     description |-> Undefined]

InitTree ==
    /\ wsFile = <<>> /\ reqFile = <<>> /\ envFile = <<>>
    /\ \E n \in 0..TreeFolders : \E parents \in [1..n -> TreeParents] :
          fldFile = [i \in 1..n |-> TreeFolder(i, parents[i])]
    /\ now = 0
    /\ nextId = [wrk |-> 0, fld |-> 0, req |-> 0, env |-> 0]
    /\ cur = Idle
    /\ pending = <<>>
    /\ failures = 0
    /\ procs = [p \in 1..2 |-> [cur |-> Idle, pending |-> <<>>]]
    /\ lastWriter = [ws |-> 0, fld |-> 0, req |-> 0, env |-> 0]
    /\ notified = <<>>
    /\ walk = NoWalk
    /\ plugin = NoPlugin
    /\ text = <<>>

\* the function applied: its arguments in `in`, what it returned in `result`
Applied(op, in, result) ==
    /\ cur.pc = "idle"
    /\ cur' = [Idle EXCEPT !.op = op, !.in = in, !.pc = "done", !.result = Some(result),
                           !.pre = Files]
    /\ UNCHANGED <<wsFile, fldFile, reqFile, envFile, now, nextId, pending, failures, aside>>

ApplyFolderBelongsToWorkspace(i, workspaceId) ==
    /\ i \in 1..Len(fldFile)
    /\ Applied("folderBelongsToWorkspace",
               [folder |-> fldFile[i], workspaceId |-> workspaceId],
               folderBelongsToWorkspace(fldFile[i], workspaceId,
                                        buildFolderLookup(fldFile)))

ApplyCollectDescendantFolderIds(folderId) ==
    Applied("collectDescendantFolderIds", [folderId |-> folderId],
            collectDescendantFolderIds(folderId, buildFolderLookup(fldFile)))

NextTree ==
    \/ \E i \in 1..TreeFolders, w \in TreeWorkspaceIds : ApplyFolderBelongsToWorkspace(i, w)
    \/ \E f \in TreeFolderIds \cup {"fld_gone"} : ApplyCollectDescendantFolderIds(f)
    \/ Return

SpecTree == InitTree /\ [][NextTree]_vars

\* where n steps upward from id lead: a step goes from a folder to its
\* parent, and from anything else nowhere
RECURSIVE UpFrom(_, _, _)
UpFrom(fld, id, n) ==
    IF n = 0 THEN id
    ELSE IF id \in Ids(fld) THEN UpFrom(fld, ParentOf(fld, id), n - 1)
    ELSE "<nowhere>"

\* some number of steps upward from id leads to target
LeadsUp(fld, id, target) == \E n \in 0..Len(fld) : UpFrom(fld, id, n) = target

\* C27: folderBelongsToWorkspace(folder, W) is true exactly when following
\* parentId pointers upward from the folder, through folders that exist,
\* leads to W; it is false when the chain leaves the folders at another id
\* or comes back to a folder it has passed.
C27_BelongsIffChainReaches ==
    Done("folderBelongsToWorkspace") =>
        (cur.result[1] <=>
            LeadsUp(cur.pre.fld, cur.in.folder.parentId, cur.in.workspaceId))

\* a folder whose chain runs in a circle of two folders is not taken to
\* belong
C27_Witness ==
    /\ Done("folderBelongsToWorkspace")
    /\ cur.result[1] = FALSE
    /\ cur.in.folder.parentId \in Ids(fldFile) \ {cur.in.folder._id}
    /\ ParentOf(fldFile, cur.in.folder.parentId) = cur.in.folder._id

\* a folder two levels below the workspace belongs
C27_DeepWitness ==
    /\ Done("folderBelongsToWorkspace")
    /\ cur.result[1] = TRUE
    /\ cur.in.folder.parentId \in Ids(fldFile)
    /\ ParentOf(fldFile, cur.in.folder.parentId) \in Ids(fldFile)

\* C28: collectDescendantFolderIds(F) is the set of F and of every folder
\* from which following parentId pointers upward leads to F, whatever the
\* shape of the folder file.
C28_DescendantsExact ==
    Done("collectDescendantFolderIds") =>
        cur.result[1] =
            {cur.in.folderId}
               \cup {d \in Ids(cur.pre.fld) : LeadsUp(cur.pre.fld, d, cur.in.folderId)}

\* a child and a grandchild of the folder were collected
C28_Witness ==
    /\ Done("collectDescendantFolderIds")
    /\ Cardinality(cur.result[1]) = 3
    /\ \E d \in cur.result[1] :
          /\ d # cur.in.folderId
          /\ ParentOf(fldFile, d) \in cur.result[1] \ {cur.in.folderId, d}

\* the folders above the one asked for run in a circle back to it
C28_CircleWitness ==
    /\ Done("collectDescendantFolderIds")
    /\ Cardinality(cur.result[1]) = 2
    /\ cur.in.folderId \in Ids(fldFile)
    /\ ParentOf(fldFile, cur.in.folderId) \in cur.result[1] \ {cur.in.folderId}

----------------------------------------------------------------------------
(* SpecWalk: the three loops of folderTree.ts run one iteration at a time  *)
(* over folder files of any shape. walk holds the locals of the loop:      *)
(* id is parentId / currentId, target the workspaceId / folderId compared  *)
(* against, visited the Set (descendants, for the enumeration), stack the  *)
(* array of collectDescendantFolderIds.                                    *)

WalkWorkspaceId == createId("wrk", 1)
WalkFolderIds == {createId("fld", i) : i \in 1..WalkFolders}
WalkParents == {WalkWorkspaceId, "fld_gone", ""} \cup WalkFolderIds

InitWalk ==
    /\ wsFile = <<>> /\ reqFile = <<>> /\ envFile = <<>>
    /\ \E n \in 0..WalkFolders : \E parents \in [1..n -> WalkParents] :
          fldFile = [i \in 1..n |-> TreeFolder(i, parents[i])]
    /\ now = 0
    /\ nextId = [wrk |-> 0, fld |-> 0, req |-> 0, env |-> 0]
    /\ cur = Idle
    /\ pending = <<>>
    /\ failures = 0
    /\ procs = [p \in 1..2 |-> [cur |-> Idle, pending |-> <<>>]]
    /\ lastWriter = [ws |-> 0, fld |-> 0, req |-> 0, env |-> 0]
    /\ notified = <<>>
    /\ walk = NoWalk
    /\ plugin = NoPlugin
    /\ text = <<>>

WalkUnchanged ==
    UNCHANGED <<wsFile, fldFile, reqFile, envFile, now, nextId, cur, pending, failures,
                procs, lastWriter, text, notified, plugin>>

\* a Set that forgets: has() is always false
VisitedNever(visited, id) == FALSE

\* visited.has(id)
VisitedHas(visited, id) == id \in visited

Finished(w) == w.pc \in {"returned", "thrown"}

\* the call: the locals as the lines before the loop set them
Enter(fn, args, id, target, stack) ==
    /\ walk.pc # "loop"
    /\ walk' = [NoWalk EXCEPT !.fn = fn, !.args = args, !.pc = "loop", !.id = id,
                              !.target = target, !.stack = stack]
    /\ WalkUnchanged

EnterFolderBelongsToWorkspace(i, workspaceId) ==
    /\ i \in 1..Len(fldFile)
    /\ Enter("folderBelongsToWorkspace",
             [folder |-> fldFile[i], workspaceId |-> workspaceId],
             fldFile[i].parentId, workspaceId, <<>>)

EnterEnsureNoFolderCycle(folderId, parentId) ==
    Enter("ensureNoFolderCycle", [folderId |-> folderId, parentId |-> parentId],
          parentId, folderId, <<>>)

EnterCollectDescendantFolderIds(folderId) ==
    Enter("collectDescendantFolderIds", [folderId |-> folderId],
          Undefined, Undefined, <<folderId>>)

\* one test of `while (parentId)` and the body that follows it; hit is what
\* meeting the target does (return true / throw)
UpwardStep(fn, hit, hitResult) ==
    /\ walk.fn = fn /\ walk.pc = "loop"
    /\ LET lookup == buildFolderLookup(fldFile)
       IN walk' =
            IF ~Truthy(walk.id)
            THEN [walk EXCEPT !.pc = "returned", !.result = Some(FALSE)]
            ELSE IF walk.id = walk.target
            THEN [walk EXCEPT !.pc = hit, !.result = Some(hitResult)]
            ELSE IF VisitedHas(walk.visited, walk.id)
            THEN [walk EXCEPT !.pc = "returned", !.result = Some(FALSE)]
            ELSE IF ~LookupHas(lookup, walk.id)
            THEN [walk EXCEPT !.pc = "returned", !.result = Some(FALSE),
                              !.visited = @ \cup {walk.id}]
            ELSE [walk EXCEPT !.visited = @ \cup {walk.id},
                              !.id = lookup.get[walk.id].parentId]
    /\ WalkUnchanged

StepFolderBelongsToWorkspace == UpwardStep("folderBelongsToWorkspace", "returned", TRUE)

\* result TRUE: the guard threw
StepEnsureNoFolderCycle == UpwardStep("ensureNoFolderCycle", "thrown", TRUE)

\* one test of `while (stack.length > 0)` and the body that follows it
StepCollectDescendantFolderIds ==
    /\ walk.fn = "collectDescendantFolderIds" /\ walk.pc = "loop"
    /\ LET lookup == buildFolderLookup(fldFile)
       IN walk' =
            IF Len(walk.stack) = 0
            THEN [walk EXCEPT !.pc = "returned", !.result = Some(walk.visited)]
            ELSE LET current == walk.stack[Len(walk.stack)]
                     rest == SubSeq(walk.stack, 1, Len(walk.stack) - 1)
                     children == SelectSeq(lookup.keys,
                                    LAMBDA k : lookup.get[k].parentId = current)
                 IN IF current \in walk.visited
                    THEN [walk EXCEPT !.stack = rest]
                    ELSE [walk EXCEPT !.stack = rest \o children,
                                      !.visited = @ \cup {current}]
    /\ WalkUnchanged

WalkStep ==
    \/ StepFolderBelongsToWorkspace
    \/ StepEnsureNoFolderCycle
    \/ StepCollectDescendantFolderIds

NextWalk ==
    \/ \E i \in 1..WalkFolders : EnterFolderBelongsToWorkspace(i, WalkWorkspaceId)
    \/ \E f \in WalkFolderIds, p \in WalkFolderIds \cup {WalkWorkspaceId} :
          EnterEnsureNoFolderCycle(f, p)
    \/ \E f \in WalkFolderIds \cup {"fld_gone"} : EnterCollectDescendantFolderIds(f)
    \/ StepFolderBelongsToWorkspace
    \/ StepEnsureNoFolderCycle
    \/ StepCollectDescendantFolderIds

\* a loop that has been entered keeps running: nothing else is scheduled
\* between two of its iterations
SpecWalk == InitWalk /\ [][NextWalk]_vars /\ WF_vars(WalkStep)

\* the loop, run to its end, has computed what the storage operations use
WalkAgrees ==
    Finished(walk) =>
        LET lookup == buildFolderLookup(fldFile)
        IN walk.result[1] =
             CASE walk.fn = "folderBelongsToWorkspace" ->
                    folderBelongsToWorkspace(walk.args.folder, walk.args.workspaceId, lookup)
               [] walk.fn = "ensureNoFolderCycle" ->
                    folderCycle(walk.args.folderId, walk.args.parentId, lookup)
               [] walk.fn = "collectDescendantFolderIds" ->
                    collectDescendantFolderIds(walk.args.folderId, lookup)

\* C29: on every folder file, one whose parentId pointers run in a circle
\* or point at the folder itself included, the membership walk, the cycle
\* guard and the descendant enumeration each come to an end, returning or
\* throwing.
C29_WalksTerminate == (walk.pc = "loop") ~> Finished(walk)

\* the membership walk has come back to a folder it had passed, in a circle
\* of two folders or more, and returned
C29_Witness ==
    /\ walk.fn = "folderBelongsToWorkspace" /\ walk.pc = "returned"
    /\ walk.id \in walk.visited
    /\ Cardinality(walk.visited) >= 2

\* the cycle guard has returned from a folder that is its own parent
C29_SelfLoopWitness ==
    /\ walk.fn = "ensureNoFolderCycle" /\ walk.pc = "returned"
    /\ walk.visited = {walk.id}
    /\ walk.id \in Ids(fldFile)
    /\ ParentOf(fldFile, walk.id) = walk.id

\* the enumeration has returned every folder of a circle it was started in
C29_EnumerationWitness ==
    /\ walk.fn = "collectDescendantFolderIds" /\ walk.pc = "returned"
    /\ Cardinality(walk.result[1]) = WalkFolders
    /\ \A d \in walk.result[1] :
          d \in Ids(fldFile) /\ ParentOf(fldFile, d) \in walk.result[1]

----------------------------------------------------------------------------
(* SpecDup: files in which an id occurs more than once. Insomnia's own     *)
(* store appends the new version of a document to the file it shares with  *)
(* this program, so the later line of an id is the current one.            *)

DupCollectionIds == {createId("wrk", i) : i \in 1..DupCollections}
DupFolderIds == {createId("fld", i) : i \in 1..DupFolders}
DupRequestIds == {createId("req", i) : i \in 1..DupRequests}

\* how many records of the file carry the id
Copies(file, id) == Cardinality({i \in 1..Len(file) : file[i]._id = id})

\* the other writer appends a renamed version of record i
AppendVersion(file, i) == Append(file, [file[i] EXCEPT !.name = "Renamed"])

DuplicateFolder ==
    /\ cur.pc = "idle"
    /\ \E i \in 1..Len(fldFile) :
          /\ Copies(fldFile, fldFile[i]._id) <= DupCopies
          /\ fldFile' = AppendVersion(fldFile, i)
    /\ UNCHANGED <<wsFile, reqFile, envFile, now, nextId, cur, pending, failures, aside>>

DuplicateRequest ==
    /\ cur.pc = "idle"
    /\ \E i \in 1..Len(reqFile) :
          /\ Copies(reqFile, reqFile[i]._id) <= DupCopies
          /\ reqFile' = AppendVersion(reqFile, i)
    /\ UNCHANGED <<wsFile, fldFile, envFile, now, nextId, cur, pending, failures, aside>>

NextDup ==
    \/ \E in \in CreateCollectionInputs :
          nextId.wrk < DupCollections /\ CreateCollection(in)
    \/ \E in \in CreateFolderInputsOver(DupCollectionIds, {}) :
          nextId.fld < DupFolders /\ CreateFolder(in)
    \/ \E in \in CreateRequestInputsOver(DupCollectionIds, DupFolderIds) :
          nextId.req < DupRequests /\ CreateRequest(in)
    \/ DuplicateFolder
    \/ DuplicateRequest
    \/ \E in \in FolderInputsOver(DupCollectionIds, DupFolderIds) : GetFolder(in)
    \/ \E in \in UpdateFolderInputsOver(DupCollectionIds, {}) :
          \E f \in DupFolderIds : UpdateFolder([in EXCEPT !.folderId = f])
    \/ \E in \in FolderInputsOver(DupCollectionIds, DupFolderIds) : DeleteFolder(in)
    \/ \E in \in RequestInputsOver(DupCollectionIds, DupRequestIds) : GetRequest(in)
    \/ \E in \in UpdateRequestInputsOver(DupCollectionIds, {}, DupRequestIds) :
          UpdateRequest(in)
    \/ \E in \in RequestInputsOver(DupCollectionIds, DupRequestIds) : DeleteRequest(in)
    \/ WriteFile
    \/ Return

SpecDup == Init /\ [][NextDup]_vars

\* the position of the last record of the file carrying the id
LastIndexOf(file, id) ==
    CHOOSE i \in 1..Len(file) :
        file[i]._id = id /\ \A j \in (i + 1)..Len(file) : file[j]._id # id

\* C30: when a file holds several records with one id, get, update and
\* delete of a folder or a request by that id all act on the last of them:
\* a get returns it, an update rewrites it in place, a delete of a request
\* removes it.
C30_LastRecordWins ==
    /\ \A op \in {"getFolder", "updateFolder"} :
          Succeeded(op) =>
             cur.result[1].name =
                cur.pre.fld[LastIndexOf(cur.pre.fld, cur.in.folderId)].name
    /\ \A op \in {"getRequest", "updateRequest"} :
          Succeeded(op) =>
             cur.result[1].name =
                cur.pre.req[LastIndexOf(cur.pre.req, cur.in.requestId)].name
    /\ Succeeded("deleteRequest") =>
          reqFile = RemoveAt(cur.pre.req, LastIndexOf(cur.pre.req, cur.in.requestId))

\* getFolder has returned the later of two records with the folder's id
C30_FolderWitness ==
    /\ Succeeded("getFolder")
    /\ Copies(cur.pre.fld, cur.in.folderId) = 2
    /\ cur.result[1].name = "Renamed"

\* getRequest has returned the earlier of two records with the request's id
C30_RequestWitness ==
    /\ Succeeded("getRequest")
    /\ Copies(cur.pre.req, cur.in.requestId) = 2
    /\ cur.result[1].name # "Renamed"

----------------------------------------------------------------------------
(* SpecList: listCollections over workspaces some of which Insomnia added  *)
(* without an environment record.                                          *)

NextList ==
    \/ \E scope \in {COLLECTION_SCOPE, "design"} :
          nextId.wrk < ListWorkspaces /\ Import(scope)
    \/ \E in \in CreateCollectionInputs :
          nextId.wrk < ListWorkspaces /\ CreateCollection(in)
    \/ ListCollections
    \/ WriteFile
    \/ Return

SpecList == Init /\ [][NextList]_vars

\* the collection-scoped workspaces of `files` that have no environment record
Bare(files) ==
    {w \in Recs(files.ws) :
        w.scope = COLLECTION_SCOPE /\ ~HasEnvironment(files, w._id)}

\* C31: a call of listCollections has at most one write to do, of the
\* environment file, and none when no collection-scoped workspace lacks an
\* environment; that write ends the call, touches no other file, and leaves
\* on file the environments that were there followed by one new environment
\* for each collection-scoped workspace that lacked one.
C31_EnvironmentsWrittenOnce ==
    [][/\ (cur.pc = "idle" /\ cur'.op = "listCollections") =>
             /\ Len(pending') <= 1
             /\ \A i \in 1..Len(pending') : pending'[i].file = "env"
             /\ (Bare(Files) = {} <=> pending' = <<>>)
       /\ (cur.op = "listCollections" /\ cur.pc = "writing" /\ pending' # pending) =>
             /\ cur'.pc = "done"
             /\ <<wsFile', fldFile', reqFile'>> = <<wsFile, fldFile, reqFile>>
             /\ Len(envFile') = Len(cur.pre.env) + Cardinality(Bare(cur.pre))
             /\ SubSeq(envFile', 1, Len(cur.pre.env)) = cur.pre.env
             /\ \A w \in Bare(cur.pre) :
                   \E i \in (Len(cur.pre.env) + 1)..Len(envFile') :
                      envFile'[i].parentId = w._id
       /\ (cur.op = "listCollections" /\ cur.pc = "done") =>
             <<wsFile', fldFile', reqFile', envFile'>> =
                <<wsFile, fldFile, reqFile, envFile>>]_vars

\* one call created the environments of two workspaces and wrote them together
C31_Witness ==
    /\ Succeeded("listCollections")
    /\ Cardinality(Bare(cur.pre)) = 2
    /\ Len(envFile) = Len(cur.pre.env) + 2
    /\ Bare(Files) = {}

\* a call that found every collection with its environment, and wrote nothing
C31_NoWriteWitness ==
    /\ Succeeded("listCollections")
    /\ Len(cur.result[1]) = 2
    /\ Bare(cur.pre) = {}
    /\ Files = cur.pre

----------------------------------------------------------------------------
\* the operations that take a collectionId and go through loadWorkspace
CollectionIdOps ==
    {"createFolder", "updateFolder", "deleteFolder", "getFolder",
     "createRequest", "updateRequest", "deleteRequest", "getRequest",
     "getEnvironment", "setEnvironmentVariable", "getEnvironmentVariable"}

\* getCollection would return undefined for the id, in the files the call read
AbsentForGetCollection(files, id) ==
    \A w \in Recs(CollectionWorkspaces(files)) : w._id # id

\* C32: an operation that takes a collectionId fails with "collection not
\* found" for exactly the ids for which getCollection returns undefined, and
\* then leaves every file as it was: a workspace of another scope is neither
\* read through nor written through.
C32_SameCollectionsAsGetCollection ==
    (cur.op \in CollectionIdOps /\ cur.pc = "done") =>
        /\ cur.err = "CollectionNotFound"
              <=> AbsentForGetCollection(cur.pre, cur.in.collectionId)
        /\ AbsentForGetCollection(cur.pre, cur.in.collectionId) => Files = cur.pre

\* createFolder has put a folder under a workspace of scope 'design'
C32_DesignScopeWitness ==
    /\ Succeeded("createFolder")
    /\ AbsentForGetCollection(cur.pre, cur.in.collectionId)
    /\ \E f \in Recs(fldFile) : f.parentId = cur.in.collectionId

----------------------------------------------------------------------------
(* SpecForward: update_folder and update_request called with null for the  *)
(* parent or the description, next to the storage functions called with    *)
(* the same arguments.                                                     *)

ForwardCollectionIds == {createId("wrk", i) : i \in 1..ForwardCollections}
ForwardFolderIds == {createId("fld", i) : i \in 1..ForwardFolders}
ForwardRequestIds == {createId("req", i) : i \in 1..ForwardRequests}

ForwardFolderArgs ==
    [collectionId : ForwardCollectionIds, folderId : ForwardFolderIds,
     name : {Undefined}, description : {Undefined, Null},
     parentId : {Undefined, Null}]

ForwardRequestArgs ==
    {[NoRequestUpdate(c, r) EXCEPT !.description = d, !.folderId = f] :
        c \in ForwardCollectionIds, r \in ForwardRequestIds,
        d \in {Undefined, Null}, f \in {Undefined, Null}}

NextForward ==
    \/ \E in \in CreateCollectionInputs :
          nextId.wrk < ForwardCollections /\ CreateCollection(in)
    \/ \E in \in [collectionId : ForwardCollectionIds, name : {"Auth"},
                  description : {"notes"},
                  parentId : {Undefined} \cup ForwardFolderIds] :
          nextId.fld < ForwardFolders /\ CreateFolder(in)
    \/ \E in \in CreateRequestInputsOver(ForwardCollectionIds, ForwardFolderIds) :
          /\ nextId.req < ForwardRequests
          /\ CreateRequest([in EXCEPT !.description = "notes"])
    \/ \E args \in ForwardFolderArgs : ToolUpdateFolder(args)
    \/ \E args \in ForwardRequestArgs : ToolUpdateRequest(args)
    \/ \E in \in ForwardFolderArgs : UpdateFolder(in)
    \/ \E in \in ForwardRequestArgs : UpdateRequest(in)
    \/ WriteFile
    \/ Return

SpecForward == Init /\ [][NextForward]_vars

\* C33: an update tool called with null for the parent or the description
\* has the outcome of the storage function called with the same null: the
\* same error or the same file contents to write, so that a null folderId or
\* parentId moves the entity to the collection root and a null description
\* clears it.
C33_NullForwardedAsNull ==
    [][/\ \A args \in ForwardFolderArgs :
             (Null \in {args.parentId, args.description} /\ ToolUpdateFolder(args))
                => /\ cur'.err = updateFolder(args).err
                   /\ pending' = updateFolder(args).writes
       /\ \A args \in ForwardRequestArgs :
             (Null \in {args.folderId, args.description} /\ ToolUpdateRequest(args))
                => /\ cur'.err = updateRequest(args).err
                   /\ pending' = updateRequest(args).writes]_vars

\* update_folder with parentId null has run on a folder inside another
\* folder, and the folder is where it was
C33_ToolWitness ==
    /\ Succeeded("updateFolder")
    /\ cur.in.parentId = Undefined
    /\ \E f \in Recs(fldFile) : f._id = cur.in.folderId /\ f.parentId \in ForwardFolderIds
    /\ \E f \in Recs(fldFile) : f._id = cur.in.folderId /\ f.modified = cur.ts

\* updateFolder with parentId null has moved a folder from inside another
\* folder to the root of the collection
C33_StorageWitness ==
    /\ Succeeded("updateFolder")
    /\ cur.in.parentId = Null
    /\ \E f \in Recs(cur.pre.fld) :
          f._id = cur.in.folderId /\ f.parentId \in ForwardFolderIds
    /\ \E f \in Recs(fldFile) :
          f._id = cur.in.folderId /\ f.parentId = cur.in.collectionId

----------------------------------------------------------------------------
(* SpecOrphan: collection A is there; caller 1 creates collection B while  *)
(* caller 2 mutates A. The steps of the two calls interleave freely.       *)

OrphanA == createId("wrk", 1)
OrphanB == createId("wrk", 2)

\* A has been created and the call that created it has returned
OrphanReady == nextId.wrk >= 1 /\ cur.pc = "idle"

NextOrphan ==
    \/ \E in \in CreateCollectionInputs : nextId.wrk = 0 /\ CreateCollection(in)
    \/ WriteFile
    \/ Return
    \/ \E in \in CreateCollectionInputs :
          /\ OrphanReady /\ nextId.wrk = 1
          /\ RaceBegin(1, "createCollection", in, createCollection(in))
    \/ \E in \in CreateFolderInputsOver({OrphanA}, {}) :
          /\ OrphanReady /\ nextId.fld < OrphanFolders
          /\ RaceBegin(2, "createFolder", in, createFolder(in))
    \/ \E in \in CreateRequestInputsOver({OrphanA}, {}) :
          /\ OrphanReady /\ nextId.req < OrphanRequests
          /\ RaceBegin(2, "createRequest", in, createRequest(in))
    \/ \E in \in [collectionId : {OrphanA}, key : {"token"}, value : {"abc"}] :
          /\ OrphanReady
          /\ RaceBegin(2, "setEnvironmentVariable", in, setEnvironmentVariable(in))
    \/ \E p \in 1..2 : RaceRead(p)
    \/ \E p \in 1..2 : RaceWrite(p)
    \/ \E p \in 1..2 : RaceReturn(p)

SpecOrphan == Init /\ [][NextOrphan]_vars

\* caller p has no call in flight
Completed(p) == procs[p].cur.pc \in {"idle", "done"}

\* C34: once createCollection(B) has completed, and the mutation of A that
\* ran alongside it has completed too, the workspace file holds B's record,
\* however the steps of the two calls were interleaved.
C34_CreatedWorkspaceSurvives ==
    (/\ procs[1].cur.op = "createCollection"
     /\ procs[1].cur.pc = "done" /\ procs[1].cur.err = "none"
     /\ Completed(2))
    => procs[1].cur.result[1].id \in Ids(wsFile)

\* both calls have completed; B's environment is on file, B's workspace is not
C34_OrphanWitness ==
    /\ procs[1].cur.op = "createCollection" /\ procs[1].cur.pc = "done"
    /\ procs[2].cur.op = "createFolder" /\ procs[2].cur.pc = "done"
    /\ procs[2].cur.err = "none"
    /\ OrphanB \notin Ids(wsFile)
    /\ \E e \in Recs(envFile) : e.parentId = OrphanB

----------------------------------------------------------------------------
\* C35: whatever operation has completed, every folder and every request
\* that was on file before it and still is belongs to the workspace it
\* belonged to before: a move by updateFolder or updateRequest stays inside
\* the owning collection, and the folders and requests below a moved folder
\* keep their owner too.
C35_OwnerNeverChanges ==
    cur.pc = "done" =>
        /\ \A f \in Ids(cur.pre.fld) \cap Ids(fldFile) :
              Owner(Files, f) = Owner(cur.pre, f)
        /\ \A r \in Ids(cur.pre.req) \cap Ids(reqFile) :
              RequestOwner(Files, r) = RequestOwner(cur.pre, r)

\* with two collections on file, a folder that has a folder below it was
\* moved into another folder
C35_Witness ==
    /\ Succeeded("updateFolder")
    /\ Len(wsFile) = 2
    /\ cur.in.parentId \in Ids(fldFile)
    /\ ParentOf(cur.pre.fld, cur.in.folderId) # cur.in.parentId
    /\ \E d \in Recs(fldFile) : d.parentId = cur.in.folderId

\* a request was moved from one folder of its collection into another
C35_RequestWitness ==
    /\ Succeeded("updateRequest")
    /\ cur.in.folderId \in Ids(fldFile)
    /\ \E r \in Recs(cur.pre.req) :
          /\ r._id = cur.in.requestId
          /\ r.parentId \in Ids(cur.pre.fld) \ {cur.in.folderId}

----------------------------------------------------------------------------
(* plugin/main.js: the Insomnia plugin that polls the MCP server's         *)
(* /collections/hash and imports when the hash has changed. JavaScript     *)
(* runs each callback to its next await without interruption, so a step   *)
(* is one such stretch. plugin.checks counts the pending                   *)
(* checkMCPConnection() calls per start path, plugin.polls the interval    *)
(* callbacks waiting for their hash fetch, plugin.changed those whose      *)
(* checkForChanges() has resolved to true, plugin.importing the            *)
(* importFromMCP() calls running; plugin.hash is the hash the server       *)
(* reports; plugin.owed holds from a change being observed until the next  *)
(* call of importFromMCP.                                                  *)

Hashes == {createId("hash", i) : i \in 1..MaxHash}

PluginUnchanged ==
    UNCHANGED <<wsFile, fldFile, reqFile, envFile, now, nextId, cur, pending, failures,
                procs, lastWriter, text, notified, walk>>

\* the callbacks of the interval timers that have not finished
InFlight(pl) ==
    pl.polls.import + pl.polls.monitor + pl.changed.import + pl.changed.monitor
       + pl.importing

\* room for one more start attempt within the bound on timers
MayAttempt(pl) ==
    pl.created + pl.checks.load + pl.checks.hook + pl.checks.toggle < MaxTimers

\* setInterval(callback, POLL_INTERVAL), the id kept in pollTimer
SetInterval(pl, kind) ==
    [pl EXCEPT !.pollTimer = createId("timer", pl.created + 1),
               !.timers = @ \cup {[id |-> createId("timer", pl.created + 1),
                                    kind |-> kind]},
               !.created = @ + 1]

startPolling(pl) ==
    IF pl.isPolling THEN pl
    ELSE SetInterval([pl EXCEPT !.isPolling = TRUE], "import")

stopPolling(pl) ==
    [pl EXCEPT !.timers = IF pl.pollTimer # Null
                          THEN {t \in @ : t.id # pl.pollTimer} ELSE @,
               !.pollTimer = Null,
               !.isPolling = FALSE]

\* the plugin-load start, whatever isPolling says
LoadStartsAnyway(connected, isPolling) == connected

\* `if (connected && !isPolling)` of the auto-start on plugin load
LoadStarts(connected, isPolling) == connected /\ ~isPolling

\* the setTimeout of the module body fires: checkMCPConnection() is awaited
PluginLoad ==
    /\ ~plugin.loaded
    /\ MayAttempt(plugin)
    /\ plugin' = [plugin EXCEPT !.loaded = TRUE, !.checks.load = @ + 1]
    /\ PluginUnchanged

\* the connection check of the plugin-load start resolves; where it starts,
\* the interval only monitors, and monitorChanges() is called at once
LoadChecked(connected) ==
    /\ plugin.checks.load > 0
    /\ LET pl == [plugin EXCEPT !.checks.load = @ - 1]
       IN plugin' =
            IF LoadStarts(connected, plugin.isPolling)
            THEN [SetInterval([pl EXCEPT !.isPolling = TRUE, !.lastKnownHash = Null],
                              "monitor")
                     EXCEPT !.polls.monitor = @ + 1]
            ELSE pl
    /\ PluginUnchanged

\* a request is sent and the setTimeout of the request hook fires
RequestHook ==
    /\ MayAttempt(plugin)
    /\ plugin' = [plugin EXCEPT !.checks.hook = @ + 1]
    /\ PluginUnchanged

HookChecked(connected) ==
    /\ plugin.checks.hook > 0
    /\ LET pl == [plugin EXCEPT !.checks.hook = @ - 1]
       IN plugin' = IF connected /\ ~plugin.isPolling THEN startPolling(pl) ELSE pl
    /\ PluginUnchanged

\* 'Toggle MCP Auto-Sync' with polling on
ToggleOff ==
    /\ plugin.isPolling
    /\ plugin' = stopPolling(plugin)
    /\ PluginUnchanged

\* 'Toggle MCP Auto-Sync' with polling off: checkMCPConnection() is awaited
ToggleOn ==
    /\ ~plugin.isPolling
    /\ MayAttempt(plugin)
    /\ plugin' = [plugin EXCEPT !.checks.toggle = @ + 1]
    /\ PluginUnchanged

ToggleChecked(connected) ==
    /\ plugin.checks.toggle > 0
    /\ LET pl == [plugin EXCEPT !.checks.toggle = @ - 1]
       IN plugin' = IF connected THEN startPolling(pl) ELSE pl
    /\ PluginUnchanged

\* an interval elapses: the callback calls checkForChanges(), which awaits
\* the hash
TimerFires ==
    /\ InFlight(plugin) < MaxCallbacks
    /\ \E t \in plugin.timers : plugin' = [plugin EXCEPT !.polls[t.kind] = @ + 1]
    /\ PluginUnchanged

\* checkForChanges() from its fetch on; ok is whether the fetch succeeded
HashFetched(kind, ok) ==
    /\ plugin.polls[kind] > 0
    /\ LET pl == [plugin EXCEPT !.polls[kind] = @ - 1]
       IN plugin' =
            IF ~ok THEN pl
            ELSE IF pl.lastKnownHash = Null
            THEN [pl EXCEPT !.lastKnownHash = pl.hash]
            ELSE IF pl.hash # pl.lastKnownHash
            THEN [pl EXCEPT !.lastKnownHash = pl.hash, !.changed[kind] = @ + 1,
                            !.owed = TRUE]
            ELSE pl
    /\ PluginUnchanged

\* `if (hasChanges)` of the interval callback: startPolling's callback calls
\* importFromMCP, the plugin-load one logs a line
ChangeHandled(kind) ==
    /\ plugin.changed[kind] > 0
    /\ LET pl == [plugin EXCEPT !.changed[kind] = @ - 1]
       IN plugin' = IF kind = "import"
                    THEN [pl EXCEPT !.importing = @ + 1, !.owed = FALSE]
                    ELSE pl
    /\ PluginUnchanged

\* importFromMCP returns, the import done or failed, and the alert is shown
ImportReturns ==
    /\ plugin.importing > 0
    /\ plugin' = [plugin EXCEPT !.importing = @ - 1]
    /\ PluginUnchanged

\* the collections on the MCP server change
ServerChanges ==
    /\ \E h \in Hashes \ {plugin.hash} : plugin' = [plugin EXCEPT !.hash = h]
    /\ PluginUnchanged

NextPlugin ==
    \/ PluginLoad
    \/ \E connected \in BOOLEAN : LoadChecked(connected)
    \/ RequestHook
    \/ \E connected \in BOOLEAN : HookChecked(connected)
    \/ ToggleOff
    \/ ToggleOn
    \/ \E connected \in BOOLEAN : ToggleChecked(connected)
    \/ TimerFires
    \/ \E kind \in {"import", "monitor"}, ok \in BOOLEAN : HashFetched(kind, ok)
    \/ ChangeHandled("import")
    \/ ChangeHandled("monitor")
    \/ ImportReturns
    \/ ServerChanges

\* a promise that has resolved gets its continuation run; nothing is assumed
\* of the user, the server or the network
SpecPlugin ==
    /\ Init /\ [][NextPlugin]_vars
    /\ WF_vars(ChangeHandled("import")) /\ WF_vars(ChangeHandled("monitor"))
    /\ WF_vars(ImportReturns)

\* C36: a change of the collections hash that a poll has observed is
\* followed, with no action of the user, by a call of importFromMCP,
\* whichever start path set the interval.
C36_ChangeLeadsToImport == plugin.owed ~> ~plugin.owed

\* the interval set on plugin load has observed a change and handled it
\* without importing
C36_MonitorWitness ==
    /\ plugin.owed
    /\ plugin.timers = {[id |-> createId("timer", 1), kind |-> "monitor"]}
    /\ InFlight(plugin) = 0
    /\ plugin.lastKnownHash = plugin.hash

\* C37: at any time at most one interval timer is active, it is the one
\* pollTimer holds, and isPolling is true exactly when there is one; so
\* after stopPolling none is active.
C37_OneTimer ==
    /\ Cardinality(plugin.timers) <= 1
    /\ plugin.isPolling <=> plugin.timers # {}
    /\ \A t \in plugin.timers : t.id = plugin.pollTimer
    /\ plugin.timers = {} => plugin.pollTimer = Null

\* polling was started, stopped and started again, and a connection check of
\* another start path resolved while the timer was active
C37_Witness ==
    /\ plugin.created = 2
    /\ Cardinality(plugin.timers) = 1
    /\ plugin.loaded /\ plugin.checks.load = 0
    /\ plugin.checks.hook + plugin.checks.toggle > 0

\* polling is off again while callbacks of the cleared timer are pending
C37_StoppedWitness ==
    /\ plugin.created >= 1
    /\ ~plugin.isPolling
    /\ plugin.timers = {}
    /\ InFlight(plugin) > 0

====
